---- MODULE Spec2Model ----
(***************************************************************************)
(* A model of the SystemVerilog lexer of source/Lexer.cpp.                 *)
(*                                                                         *)
(* The source buffer is a sequence of bytes (0..255) followed by the end   *)
(* sentinel, a NUL at offset sourceEnd.  Offsets are 0-based as in the     *)
(* code.  One action, Lex, is one call of Lexer::lex(); the scanners it    *)
(* calls are operators over a record L that holds the fields of the lexer  *)
(* the call reads and writes.  A second lexer, with a buffer and a sink of  *)
(* its own, is kept in other; Switch exchanges it with the lexer that runs. *)
(***************************************************************************)
EXTENDS Integers, Sequences, FiniteSets, TLC

VARIABLES
    source,          \* the bytes before the end sentinel
    sourceBuffer,    \* Lexer::sourceBuffer, as an offset into the buffer
    marker,          \* Lexer::marker, as an offset
    mode,            \* Lexer::mode
    diagnostics,     \* the diagnostic sink: <<[code, at]>>, at = cursor offset at emission
    triviaBuffer,    \* Lexer::triviaBuffer
    tokens,          \* the tokens lex() has returned so far, in order
    status,          \* "ready" | "eof" | "aborted" | "hung" | "undefined"
    assertEnabled,   \* whether the build compiles ASSERT in
    other,           \* the fields of the second lexer
    active           \* which of the two lexers the fields above are: 1 or 2

vars == <<source, sourceBuffer, marker, mode, diagnostics, triviaBuffer,
          tokens, status, assertEnabled, other, active>>

----------------------------------------------------------------------------
(* Bytes. *)

AsciiPrintable ==
    << " ", "!", "dq", "#", "$", "%", "&", "'", "(", ")", "*", "+", ",", "-",
       ".", "/", "0", "1", "2", "3", "4", "5", "6", "7", "8", "9", ":", ";",
       "<", "=", ">", "?", "@", "A", "B", "C", "D", "E", "F", "G", "H", "I",
       "J", "K", "L", "M", "N", "O", "P", "Q", "R", "S", "T", "U", "V", "W",
       "X", "Y", "Z", "[", "bs", "]", "^", "_", "bq", "a", "b", "c", "d", "e",
       "f", "g", "h", "i", "j", "k", "l", "m", "n", "o", "p", "q", "r", "s",
       "t", "u", "v", "w", "x", "y", "z", "{", "|", "}", "~" >>

\* The code of a character, by the way the source writes it.
Ch ==
    [i \in {} |-> 0]
    @@ [s \in {AsciiPrintable[i] : i \in 1..Len(AsciiPrintable)} |->
           31 + (CHOOSE i \in 1..Len(AsciiPrintable) : AsciiPrintable[i] = s)]
    @@ ("NUL" :> 0) @@ ("BEL" :> 7) @@ ("TAB" :> 9) @@ ("LF" :> 10)
    @@ ("VT" :> 11) @@ ("FF" :> 12) @@ ("CR" :> 13)
    @@ ("xC3" :> 195) @@ ("xE2" :> 226) @@ ("xF0" :> 240) @@ ("x80" :> 128)
    @@ ("xFF" :> 255) @@ ("xFE" :> 254) @@ ("xEF" :> 239) @@ ("xBB" :> 187)
    @@ ("xBF" :> 191) @@ ("x01" :> 1)

\* A buffer written as a sequence of characters.
Bytes(s) == [i \in 1..Len(s) |-> Ch[s[i]]]

isASCII(c) == c < 128
isDecimalDigit(c) == c \in 48..57
isOctalDigit(c) == c \in 48..55
isBinaryDigit(c) == c \in 48..49
isHexDigit(c) == c \in 48..57 \/ c \in 65..70 \/ c \in 97..102
isLogicDigit(c) == c \in {Ch["x"], Ch["X"], Ch["z"], Ch["Z"], Ch["?"]}
isAlphaNumeric(c) == c \in 48..57 \/ c \in 65..90 \/ c \in 97..122
isHorizontalWhitespace(c) == c \in {Ch[" "], Ch["TAB"], Ch["VT"], Ch["FF"]}
isNewline(c) == c \in {Ch["CR"], Ch["LF"]}
isWhitespace(c) == isHorizontalWhitespace(c) \/ isNewline(c)
isPrintable(c) == c \in 33..126
getDigitValue(c) == c - 48
getHexDigitValue(c) ==
    IF c \in 48..57 THEN c - 48
    ELSE IF c \in 97..102 THEN 10 + c - 97
    ELSE 10 + c - 65

\* The number of continuation bytes the lead byte of a UTF-8 sequence announces.
utf8SeqBytes(c) ==
    IF c \in 192..223 THEN 1
    ELSE IF c \in 224..239 THEN 2
    ELSE IF c \in 240..247 THEN 3
    ELSE 0

----------------------------------------------------------------------------
(* The cursor.  L is the lexer within a call: pos (sourceBuffer), mark     *)
(* (marker), mode, diags (the sink), trivia (triviaBuffer), str            *)
(* (stringBuffer), data (the payload of the token), flag (the boolean a scanner *)
(* returns) and hung (the call is in a loop it never leaves).              *)

sourceEnd == Len(source)

\* The byte at an offset: the sentinel at sourceEnd, NUL beyond it.
ByteAt(i) == IF i >= 0 /\ i < Len(source) THEN source[i + 1] ELSE 0

peek(L, k) == ByteAt(L.pos + k)
advance(L, n) == [L EXCEPT !.pos = @ + n]
consume(L, c) == IF peek(L, 0) = c THEN advance(L, 1) ELSE L
mark(L) == [L EXCEPT !.mark = L.pos]
lexemeLength(L) == L.pos - L.mark
reallyAtEnd(L) == L.pos >= sourceEnd

\* addError that puts the diagnostic in front of the others.
addErrorInFront(L, code) ==
    [L EXCEPT !.diags = <<[code |-> code, at |-> L.pos]>> \o @]

\* addError: the diagnostic carries its code alone, SyntaxError(code, 0, 0);
\* at records the cursor at the emission.
addError(L, code) ==
    [L EXCEPT !.diags = Append(@, [code |-> code, at |-> L.pos])]

\* addTrivia that keeps the last trivium alone in the buffer.
addTriviaKeepingLast(L, kind) ==
    [L EXCEPT !.trivia = <<[kind |-> kind, from |-> L.mark, to |-> L.pos]>>]

addTrivia(L, kind) ==
    [L EXCEPT !.trivia = Append(@, [kind |-> kind, from |-> L.mark, to |-> L.pos])]

----------------------------------------------------------------------------
(* Trivia. *)

\* scanWhitespace whose loop stops at once.
scanWhitespaceLoopStopped(L) == L

RECURSIVE scanWhitespaceLoop(_)
scanWhitespaceLoop(L) ==
    IF isHorizontalWhitespace(peek(L, 0)) THEN scanWhitespaceLoop(advance(L, 1))
    ELSE L

scanWhitespace(L) == addTrivia(scanWhitespaceLoop(L), "Whitespace")

RECURSIVE scanLineCommentLoop(_)
scanLineCommentLoop(L) ==
    LET c == peek(L, 0) IN
    IF isNewline(c) THEN L
    ELSE IF c = 0 THEN
        IF reallyAtEnd(L) THEN L
        ELSE scanLineCommentLoop(advance(addError(L, "EmbeddedNull"), 1))
    ELSE scanLineCommentLoop(advance(L, 1))

scanLineComment(L) == addTrivia(scanLineCommentLoop(L), "LineComment")

\* The loop of scanBlockComment without the reset of the mode at a newline.
RECURSIVE scanBlockCommentLoopKeepingMode(_, _)
scanBlockCommentLoopKeepingMode(L, eod) ==
    LET c == peek(L, 0) IN
    IF c = 0 THEN
        IF reallyAtEnd(L)
        THEN [addError(L, "UnterminatedBlockComment") EXCEPT !.flag = eod]
        ELSE [addError(L, "EmbeddedNull") EXCEPT !.hung = TRUE, !.flag = eod]
    ELSE IF c = Ch["*"] /\ peek(L, 1) = Ch["/"] THEN
        [advance(L, 2) EXCEPT !.flag = eod]
    ELSE IF c = Ch["/"] /\ peek(L, 1) = Ch["*"] THEN
        scanBlockCommentLoopKeepingMode(addError(advance(L, 2), "NestedBlockComment"), eod)
    ELSE
        LET A == advance(L, 1) IN
        IF A.mode # "Normal" /\ isNewline(c)
        THEN scanBlockCommentLoopKeepingMode(
                addError(A, "SplitBlockCommentInDirective"), TRUE)
        ELSE scanBlockCommentLoopKeepingMode(A, eod)

\* The loop of scanBlockComment; flag is its result (eod).  An embedded NUL is
\* diagnosed without advancing, so the same iteration repeats for ever.
RECURSIVE scanBlockCommentLoop(_, _)
scanBlockCommentLoop(L, eod) ==
    LET c == peek(L, 0) IN
    IF c = 0 THEN
        IF reallyAtEnd(L)
        THEN [addError(L, "UnterminatedBlockComment") EXCEPT !.flag = eod]
        ELSE [addError(L, "EmbeddedNull") EXCEPT !.hung = TRUE, !.flag = eod]
    ELSE IF c = Ch["*"] /\ peek(L, 1) = Ch["/"] THEN
        [advance(L, 2) EXCEPT !.flag = eod]
    ELSE IF c = Ch["/"] /\ peek(L, 1) = Ch["*"] THEN
        scanBlockCommentLoop(addError(advance(L, 2), "NestedBlockComment"), eod)
    ELSE
        LET A == advance(L, 1) IN
        IF A.mode # "Normal" /\ isNewline(c)
        THEN scanBlockCommentLoop(
                [addError(A, "SplitBlockCommentInDirective") EXCEPT !.mode = "Normal"],
                TRUE)
        ELSE scanBlockCommentLoop(A, eod)

scanBlockComment(L) ==
    LET R == scanBlockCommentLoop(L, FALSE) IN
    IF R.hung THEN R ELSE addTrivia(R, "BlockComment")

\* lexTrivia; flag is its result.
RECURSIVE lexTrivia(_)
lexTrivia(L) ==
    LET M == mark(L)
        c == peek(M, 0)
    IN
    IF isHorizontalWhitespace(c) THEN lexTrivia(scanWhitespace(advance(M, 1)))
    ELSE IF c = Ch["/"] THEN
        IF peek(M, 1) = Ch["/"] THEN lexTrivia(scanLineComment(advance(M, 2)))
        ELSE IF peek(M, 1) = Ch["*"] THEN
            LET R == scanBlockComment(advance(M, 2)) IN
            IF R.hung \/ R.flag THEN [R EXCEPT !.flag = TRUE] ELSE lexTrivia(R)
        ELSE [M EXCEPT !.flag = FALSE]
    ELSE IF c = Ch["CR"] THEN
        LET R == addTrivia(consume(advance(M, 1), Ch["LF"]), "EndOfLine") IN
        IF R.mode # "Normal" THEN [R EXCEPT !.flag = TRUE] ELSE lexTrivia(R)
    ELSE IF c = Ch["LF"] THEN
        LET R == addTrivia(advance(M, 1), "EndOfLine") IN
        IF R.mode # "Normal" THEN [R EXCEPT !.flag = TRUE] ELSE lexTrivia(R)
    ELSE IF c = Ch["bs"] THEN
        \* peek() is still the backslash here
        IF M.mode = "Normal" \/ ~isNewline(peek(M, 0)) THEN [M EXCEPT !.flag = FALSE]
        ELSE lexTrivia(advance(M, 1))
    ELSE [M EXCEPT !.flag = FALSE]

----------------------------------------------------------------------------
(* Identifiers, string literals, escaped identifiers, directives. *)

\* The bytes from the marker to the cursor.
lexeme(L) == [i \in 1..lexemeLength(L) |-> ByteAt(L.mark + i - 1)]

IdentifierInfo(L, type) == [info |-> "Identifier", type |-> type, raw |-> lexeme(L)]

RECURSIVE scanIdentifier(_)
scanIdentifier(L) ==
    LET c == peek(L, 0) IN
    IF isAlphaNumeric(c) \/ c = Ch["_"] \/ c = Ch["$"] THEN scanIdentifier(advance(L, 1))
    ELSE L

append(L, c) == [L EXCEPT !.str = Append(@, c)]

\* The octal escape without the test of the value against 255.
octalEscapeUnchecked(L, c) ==
    IF ~isOctalDigit(peek(L, 0)) THEN append(L, getDigitValue(c))
    ELSE IF ~isOctalDigit(peek(L, 1))
         THEN append(advance(L, 1), (getDigitValue(c) * 8) + getDigitValue(peek(L, 0)))
    ELSE append(advance(L, 2),
                (((getDigitValue(c) * 8) + getDigitValue(peek(L, 0))) * 8)
                    + getDigitValue(peek(L, 1)))

\* The octal escape: c is the first digit, already consumed.
octalEscape(L, c) ==
    LET c1 == getDigitValue(c)
        d2 == peek(L, 0)
    IN
    IF ~isOctalDigit(d2) THEN append(L, c1)
    ELSE
        LET A  == advance(L, 1)
            c2 == (c1 * 8) + getDigitValue(d2)
            d3 == peek(A, 0)
        IN
        IF ~isOctalDigit(d3) THEN append(A, c2)
        ELSE
            LET B  == advance(A, 1)
                c3 == (c2 * 8) + getDigitValue(d3)
            IN
            IF c3 > 255 THEN addError(B, "OctalEscapeCodeTooBig")
            ELSE append(B, c3)

\* The hex escape: the x is already consumed.
hexEscape(L) ==
    LET c == peek(L, 0)
        A == advance(L, 1)
    IN
    IF ~isHexDigit(c) THEN append(addError(A, "InvalidHexEscapeCode"), c)
    ELSE
        LET c1 == getHexDigitValue(c)
            d2 == peek(A, 0)
        IN
        IF isHexDigit(d2) THEN append(advance(A, 1), (c1 * 16) + getHexDigitValue(d2))
        ELSE append(A, c1)

\* The switch on the byte c after a backslash; both are already consumed.
stringEscape(L, c) ==
    IF c = Ch["n"] THEN append(L, Ch["LF"])
    ELSE IF c = Ch["t"] THEN append(L, Ch["TAB"])
    ELSE IF c = Ch["bs"] THEN append(L, Ch["bs"])
    ELSE IF c = Ch["dq"] THEN append(L, Ch["dq"])
    ELSE IF c = Ch["v"] THEN append(L, Ch["VT"])
    ELSE IF c = Ch["f"] THEN append(L, Ch["FF"])
    ELSE IF c = Ch["a"] THEN append(L, Ch["BEL"])
    ELSE IF c = Ch["LF"] THEN L
    ELSE IF c = Ch["CR"] THEN consume(L, Ch["LF"])
    ELSE IF isOctalDigit(c) THEN octalEscape(L, c)
    ELSE IF c = Ch["x"] THEN hexEscape(L)
    ELSE append(addError(L, "UnknownEscapeCode"), c)

\* The loop of lexStringLiteral.  An embedded NUL is diagnosed without
\* advancing, so the same iteration repeats for ever.
RECURSIVE lexStringLiteralLoop(_)
lexStringLiteralLoop(L) ==
    LET c == peek(L, 0) IN
    IF c = Ch["bs"] THEN
        LET A == advance(L, 1) IN
        lexStringLiteralLoop(stringEscape(advance(A, 1), peek(A, 0)))
    ELSE IF c = Ch["dq"] THEN advance(L, 1)
    ELSE IF isNewline(c) THEN addError(L, "NewlineInStringLiteral")
    ELSE IF c = 0 THEN
        IF reallyAtEnd(L) THEN addError(L, "UnterminatedStringLiteral")
        ELSE [addError(L, "EmbeddedNull") EXCEPT !.hung = TRUE]
    ELSE lexStringLiteralLoop(append(advance(L, 1), c))

lexStringLiteral(L) ==
    LET R == lexStringLiteralLoop([L EXCEPT !.str = <<>>]) IN
    [R EXCEPT !.kind = "StringLiteral",
              !.data = [info |-> "StringLiteral", raw |-> lexeme(R), niceText |-> R.str]]

RECURSIVE lexEscapeSequenceLoop(_)
lexEscapeSequenceLoop(L) ==
    IF isPrintable(peek(L, 0)) THEN
        LET A == advance(L, 1) IN
        IF isWhitespace(peek(A, 0)) THEN A ELSE lexEscapeSequenceLoop(A)
    ELSE L

lexEscapeSequence(L) ==
    LET c == peek(L, 0) IN
    IF isWhitespace(c) \/ c = 0 THEN
        LET E == addError(L, "EscapedWhitespace") IN
        [E EXCEPT !.kind = "Unknown", !.data = IdentifierInfo(E, "Unknown")]
    ELSE
        LET R == lexEscapeSequenceLoop(L) IN
        [R EXCEPT !.kind = "Identifier", !.data = IdentifierInfo(R, "Escaped")]

lexDollarSign(L) ==
    LET R == scanIdentifier(L) IN
    IF lexemeLength(R) = 1 THEN [R EXCEPT !.kind = "Dollar"]
    ELSE [R EXCEPT !.kind = "SystemIdentifier", !.data = IdentifierInfo(R, "System")]

\* The directive table of the syntax facts: the names after the backquote.
DirectiveNames ==
    { <<"i","n","c","l","u","d","e">>, <<"d","e","f","i","n","e">>,
      <<"u","n","d","e","f">>, <<"i","f","d","e","f">>, <<"i","f","n","d","e","f">>,
      <<"e","l","s","e">>, <<"e","l","s","i","f">>, <<"e","n","d","i","f">>,
      <<"l","i","n","e">>, <<"t","i","m","e","s","c","a","l","e">>,
      <<"r","e","s","e","t","a","l","l">> }

getDirectiveKind(directive) ==
    IF directive = Bytes(<<"bq","i","n","c","l","u","d","e">>) THEN "IncludeDirective"
    ELSE IF \E n \in DirectiveNames : directive = Bytes(<<"bq">> \o n) THEN "OtherDirective"
    ELSE "MacroUsage"

\* lexDirective that enters Directive mode for a macro usage too.
lexDirectiveAlwaysDirective(L) ==
    LET R == scanIdentifier(L) IN
    IF lexemeLength(R) = 1 THEN
        LET E == addError(R, "MisplacedDirectiveChar") IN
        [E EXCEPT !.kind = "Unknown", !.data = IdentifierInfo(E, "Unknown")]
    ELSE
        LET directive == lexeme(R)
            type == getDirectiveKind(directive)
            D == [R EXCEPT !.data = [info |-> "Directive", raw |-> directive, type |-> type]]
        IN
        IF type = "MacroUsage" THEN [D EXCEPT !.kind = "MacroUsage", !.mode = "Directive"]
        ELSE IF type = "IncludeDirective"
             THEN [D EXCEPT !.kind = "Directive", !.mode = "Include"]
             ELSE [D EXCEPT !.kind = "Directive", !.mode = "Directive"]

lexDirective(L) ==
    LET R == scanIdentifier(L) IN
    IF lexemeLength(R) = 1 THEN
        LET E == addError(R, "MisplacedDirectiveChar") IN
        [E EXCEPT !.kind = "Unknown", !.data = IdentifierInfo(E, "Unknown")]
    ELSE
        LET directive == lexeme(R)
            type == getDirectiveKind(directive)
            D == [R EXCEPT !.data = [info |-> "Directive", raw |-> directive, type |-> type]]
        IN
        IF type = "MacroUsage" THEN [D EXCEPT !.kind = "MacroUsage"]
        ELSE IF type = "IncludeDirective"
             THEN [D EXCEPT !.kind = "Directive", !.mode = "Include"]
             ELSE [D EXCEPT !.kind = "Directive", !.mode = "Directive"]

----------------------------------------------------------------------------
(* Numbers.  A uint64_t that holds a scanned number is kept as its decimal *)
(* digits, most significant first and without leading zeros (<<>> is 0):   *)
(* scanUnsignedNumber adds at most MaxMantissaDigits digits to it, and     *)
(* 10^18 < 2^64, so the C++ value never wraps.                             *)

MaxMantissaDigits == 18
MaxExponent == 511

INT32_MAX == <<2,1,4,7,4,8,3,6,4,7>>
UINT32_MAX == <<4,2,9,4,9,6,7,2,9,5>>
\* The first 18 digits of the largest finite double, 1.7976931348623157e308.
DBL_MAX_DIGITS == <<1,7,9,7,6,9,3,1,3,4,8,6,2,3,1,5,7,0>>

\* (v * 10) + d
MulAdd10(v, d) == IF v = <<>> /\ d = 0 THEN <<>> ELSE Append(v, d)

\* a > b
NumGreater(a, b) ==
    \/ Len(a) > Len(b)
    \/ /\ Len(a) = Len(b)
       /\ \E i \in 1..Len(a) : a[i] > b[i] /\ \A j \in 1..(i - 1) : a[j] = b[j]

Min(a, b) == IF a < b THEN a ELSE b

\* The low 32 bits of a number, as two 16-bit halves.
RECURSIVE Low32(_, _, _, _)
Low32(v, i, hi, lo) ==
    IF i > Len(v) THEN [hi |-> hi, lo |-> lo]
    ELSE LET l == (lo * 10) + v[i] IN
         Low32(v, i + 1, ((hi * 10) + (l \div 65536)) % 65536, l % 65536)

\* int(v): the conversion of a uint64_t to a 32-bit int keeps the low 32 bits.
Int32Of(v) ==
    LET r == Low32(v, 1, 0, 0) IN
    IF r.hi >= 32768 THEN ((r.hi - 65536) * 65536) + r.lo ELSE (r.hi * 65536) + r.lo

INT_MAX == 2147483647
INT_MIN == (-2147483647) - 1

\* a + b in int: ovf when the sum is not an int (undefined behaviour).
AddInt(a, b) ==
    IF b > 0 /\ a > INT_MAX - b THEN [ovf |-> TRUE, val |-> 0]
    ELSE IF b < 0 /\ a < INT_MIN - b THEN [ovf |-> TRUE, val |-> 0]
    ELSE [ovf |-> FALSE, val |-> a + b]

\* a - b in int.
SubInt(a, b) ==
    IF b = INT_MIN THEN (IF a >= 0 THEN [ovf |-> TRUE, val |-> 0]
                         ELSE [ovf |-> FALSE, val |-> (a + INT_MAX) + 1])
    ELSE AddInt(a, -b)

RECURSIVE skipZeros(_)
skipZeros(L) == IF peek(L, 0) = Ch["0"] THEN skipZeros(advance(L, 1)) ELSE L

\* scanUnsignedNumber with the test of its loop inverted: it stops at a digit.
scanUnsignedNumberStopsAtDigit(L, unsignedVal, digits) ==
    IF isDecimalDigit(peek(L, 0)) \/ peek(L, 0) = Ch["_"]
    THEN [L EXCEPT !.num = unsignedVal, !.digits = digits]
    ELSE [advance(L, 1) EXCEPT !.num = unsignedVal, !.digits = digits]

\* scanUnsignedNumber; its c is always the byte under the cursor.  The
\* results are left in num (unsignedVal) and digits.
RECURSIVE scanUnsignedNumber(_, _, _)
scanUnsignedNumber(L, unsignedVal, digits) ==
    LET c == peek(L, 0) IN
    IF isDecimalDigit(c) THEN
        scanUnsignedNumber(advance(L, 1),
            IF digits < MaxMantissaDigits THEN MulAdd10(unsignedVal, getDigitValue(c))
            ELSE unsignedVal,
            digits + 1)
    ELSE IF c = Ch["_"] THEN scanUnsignedNumber(advance(L, 1), unsignedVal, digits)
    ELSE [L EXCEPT !.num = unsignedVal, !.digits = digits]

RECURSIVE findNextNonWhitespaceFrom(_, _)
findNextNonWhitespaceFrom(L, lookahead) ==
    IF isHorizontalWhitespace(peek(L, lookahead))
    THEN findNextNonWhitespaceFrom(L, lookahead + 1)
    ELSE lookahead

findNextNonWhitespace(L) == findNextNonWhitespaceFrom(L, 0)

\* composeDouble(double(value), exp, result): whether the result is finite;
\* ub when the code's behaviour is undefined (-exp of INT_MIN, after which
\* the loop shifts a negative exp and runs off the table).  The product of
\* the table entries is infinite from 10^309 on; the comparison with the
\* largest double is made on the first 18 decimal digits.
composeDouble(value, exp) ==
    IF exp = INT_MIN THEN [ub |-> TRUE, finite |-> FALSE, iterations |-> 0]
    ELSE
        LET neg == exp < 0
            e0  == IF neg THEN -exp ELSE exp
            e   == IF e0 > MaxExponent THEN MaxExponent ELSE e0
            its == IF e = 0 THEN 0
                   ELSE CHOOSE n \in 1..9 : e < 2^n /\ e >= 2^(n - 1)
            n   == Len(value)
            padded == value \o [i \in 1..(18 - n) |-> 0]
        IN
        [ub |-> FALSE, iterations |-> its,
         finite |-> IF neg THEN TRUE
                    ELSE IF e >= 309 THEN FALSE
                    ELSE IF n = 0 THEN TRUE
                    ELSE IF n + e < 309 THEN TRUE
                    ELSE IF n + e > 309 THEN FALSE
                    ELSE ~NumGreater(padded, DBL_MAX_DIGITS)]

\* The exponent part of a real literal; the cursor is on the e.  flag is neg,
\* num is expVal.
exponentDigits(N, unusedDigits) ==
    IF ~isDecimalDigit(peek(N, 0))
    THEN [addError(N, "MissingExponentDigits") EXCEPT !.num = <<>>]
    ELSE [scanUnsignedNumber(N, <<>>, 0) EXCEPT !.digits = unusedDigits]

exponentSign(Z, c, digits) ==
    exponentDigits(
        [(IF c = Ch["+"] \/ c = Ch["-"] THEN advance(Z, 1) ELSE Z) EXCEPT !.flag = (c = Ch["-"])],
        digits)

exponentZeros(Z, digits) == exponentSign(Z, peek(Z, 0), digits)

scanExponent(L) == exponentZeros(skipZeros(advance(L, 1)), L.digits)

\* The end of lexRealLiteral: E is the lexer after the exponent part, exp
\* the decimal exponent and r what composeDouble makes of it.
realLiteralInfo(E, value, expVal, exp, r) ==
    [E EXCEPT !.ub = r.ub,
              !.kind = "RealLiteral",
              !.data = [info |-> "Numeric", type |-> "real", raw |-> lexeme(E),
                        mantissa |-> value, expVal |-> expVal, exp |-> exp.val,
                        iterations |-> r.iterations, finite |-> r.finite]]

realLiteralCompose(E, value, expVal, exp, r) ==
    realLiteralInfo(IF ~r.ub /\ ~r.finite THEN addError(E, "RealExponentTooLarge") ELSE E,
                    value, expVal, exp, r)

realLiteralExp(E, value, expVal, exp) ==
    realLiteralCompose(E, value, expVal, exp,
        IF exp.ovf THEN [ub |-> TRUE, finite |-> FALSE, iterations |-> 0]
        ELSE composeDouble(value, exp.val))

realLiteralAfterExponent(E, value, fracExp) ==
    realLiteralExp(E, value, E.num,
        IF E.flag THEN SubInt(fracExp, Int32Of(E.num))
        ELSE AddInt(fracExp, Int32Of(E.num)))

lexRealLiteral(L, value, decPoint, digits, exponent) ==
    realLiteralAfterExponent(
        IF exponent THEN scanExponent(L) ELSE [L EXCEPT !.flag = FALSE, !.num = <<>>],
        value,
        decPoint - Min(digits, MaxMantissaDigits))

\* lexVectorDigits<IsDigitFunc, ValueFunc>; the digits handed to the vector
\* builder are collected in str.
IsDigitFunc(base, c) ==
    IF base = "d" THEN isDecimalDigit(c)
    ELSE IF base = "o" THEN isOctalDigit(c)
    ELSE IF base = "h" THEN isHexDigit(c)
    ELSE isBinaryDigit(c)

ValueFunc(base, c) == IF base = "h" THEN getHexDigitValue(c) ELSE getDigitValue(c)

VectorInfo(L, size, isSigned, sized, digits) ==
    [info |-> "Numeric", type |-> "vector", raw |-> lexeme(L), sized |-> sized,
     size |-> size, isSigned |-> isSigned, digits |-> digits]

ZeroInfo(L) == [info |-> "Numeric", type |-> "int", raw |-> lexeme(L), value |-> <<>>]

\* A digit of a vector: a value of the base, or the logic values x and z.
LogicValue(n) == [logic |-> "value", v |-> n]
LogicX == [logic |-> "x", v |-> 0]
LogicZ == [logic |-> "z", v |-> 0]

\* The loop of lexVectorDigits without the case of the question mark.
RECURSIVE lexVectorDigitsLoopNoQuestionMark(_, _)
lexVectorDigitsLoopNoQuestionMark(L, base) ==
    LET c == peek(L, 0) IN
    IF c = Ch["_"] THEN lexVectorDigitsLoopNoQuestionMark(advance(L, 1), base)
    ELSE IF c \in {Ch["z"], Ch["Z"]}
         THEN lexVectorDigitsLoopNoQuestionMark(advance(append(L, LogicZ), 1), base)
    ELSE IF c \in {Ch["x"], Ch["X"]}
         THEN lexVectorDigitsLoopNoQuestionMark(advance(append(L, LogicX), 1), base)
    ELSE IF IsDigitFunc(base, c)
         THEN lexVectorDigitsLoopNoQuestionMark(
                  advance(append(L, LogicValue(ValueFunc(base, c))), 1), base)
    ELSE L

RECURSIVE lexVectorDigitsLoop(_, _)
lexVectorDigitsLoop(L, base) ==
    LET c == peek(L, 0) IN
    IF c = Ch["_"] THEN lexVectorDigitsLoop(advance(L, 1), base)
    ELSE IF c \in {Ch["z"], Ch["Z"], Ch["?"]}
         THEN lexVectorDigitsLoop(advance(append(L, LogicZ), 1), base)
    ELSE IF c \in {Ch["x"], Ch["X"]}
         THEN lexVectorDigitsLoop(advance(append(L, LogicX), 1), base)
    ELSE IF IsDigitFunc(base, c)
         THEN lexVectorDigitsLoop(advance(append(L, LogicValue(ValueFunc(base, c))), 1), base)
    ELSE L

\* start is what vectorBuilder.start / startUnsized was given.
lexVectorDigits(L, base, start) ==
    LET lookahead == findNextNonWhitespace(L)
        c == peek(L, lookahead)
    IN
    IF ~IsDigitFunc(base, c) /\ ~isLogicDigit(c) THEN
        LET E == addError(L, "MissingVectorDigits") IN
        [E EXCEPT !.str = <<>>, !.data = ZeroInfo(E)]
    ELSE
        LET R == lexVectorDigitsLoop([advance(L, lookahead) EXCEPT !.str = <<>>], base) IN
        [R EXCEPT !.data = VectorInfo(R, start.size, start.isSigned, start.sized, R.str)]

BaseOf(c) ==
    IF c \in {Ch["d"], Ch["D"]} THEN "d"
    ELSE IF c \in {Ch["o"], Ch["O"]} THEN "o"
    ELSE IF c \in {Ch["h"], Ch["H"]} THEN "h"
    ELSE IF c \in {Ch["b"], Ch["B"]} THEN "b"
    ELSE "none"

lexVectorLiteral(L, size64) ==
    LET S == IF size64 = <<>> THEN addError(L, "IntegerSizeZero")
             ELSE IF NumGreater(size64, UINT32_MAX) THEN addError(L, "IntegerSizeTooLarge")
             ELSE L
        size32 == IF NumGreater(size64, UINT32_MAX) THEN UINT32_MAX ELSE size64
        c0 == peek(S, 0)
        isSigned == c0 \in {Ch["s"], Ch["S"]}
        T == IF isSigned THEN advance(S, 1) ELSE S
        c == peek(T, 0)
    IN
    IF BaseOf(c) # "none"
    THEN lexVectorDigits(advance(T, 1), BaseOf(c),
                         [size |-> size32, isSigned |-> isSigned, sized |-> TRUE])
    ELSE LET E == addError(T, "MissingVectorBase") IN [E EXCEPT !.data = ZeroInfo(E)]

lexUnsizedNumericLiteral(L) ==
    LET c == peek(L, 0) IN
    IF BaseOf(c) # "none"
    THEN lexVectorDigits(advance(L, 1), BaseOf(c),
                         [size |-> <<>>, isSigned |-> FALSE, sized |-> FALSE])
    ELSE IF c \in {Ch["0"], Ch["1"]} THEN
        LET A == advance(L, 1) IN
        [A EXCEPT !.data = [info |-> "Numeric", type |-> "logic", raw |-> lexeme(A),
                            value |-> LogicValue(getDigitValue(c))]]
    ELSE IF c \in {Ch["x"], Ch["X"]} THEN
        LET A == advance(L, 1) IN
        [A EXCEPT !.data = [info |-> "Numeric", type |-> "logic", raw |-> lexeme(A),
                            value |-> LogicX]]
    ELSE IF c \in {Ch["z"], Ch["Z"]} THEN
        LET A == advance(L, 1) IN
        [A EXCEPT !.data = [info |-> "Numeric", type |-> "logic", raw |-> lexeme(A),
                            value |-> LogicZ]]
    ELSE LET E == addError(L, "InvalidUnsizedLiteral") IN [E EXCEPT !.data = ZeroInfo(E)]

\* The default case of lexNumericLiteral: a signed 32-bit literal.
signedLiteral(L, unsignedVal) ==
    LET big == NumGreater(unsignedVal, INT32_MAX)
        E == IF big THEN addError(L, "SignedLiteralTooLarge") ELSE L
    IN
    [E EXCEPT !.kind = "IntegerLiteral",
              !.data = [info |-> "Numeric", type |-> "int", raw |-> lexeme(E),
                        value |-> IF big THEN INT32_MAX ELSE unsignedVal]]

lexNumericLiteral(L) ==
    LET S == scanUnsignedNumber(skipZeros(L), <<>>, 0)
        unsignedVal == S.num
        digits == S.digits
        lookahead == findNextNonWhitespace(S)
    IN
    IF lookahead > 0 /\ peek(S, lookahead) = Ch["'"] THEN
        [lexVectorLiteral(advance(S, lookahead + 1), unsignedVal)
            EXCEPT !.kind = "IntegerLiteral"]
    ELSE IF peek(S, 0) = Ch["'"] THEN
        [lexVectorLiteral(advance(S, 1), unsignedVal) EXCEPT !.kind = "IntegerLiteral"]
    ELSE IF peek(S, 0) = Ch["."] THEN
        LET A == advance(S, 1)
            M == IF ~isDecimalDigit(peek(A, 0)) THEN addError(A, "MissingFractionalDigits")
                 ELSE A
            F == scanUnsignedNumber(M, unsignedVal, digits)
        IN
        lexRealLiteral(F, F.num, digits, F.digits, peek(F, 0) \in {Ch["e"], Ch["E"]})
    ELSE IF peek(S, 0) \in {Ch["e"], Ch["E"]} THEN
        lexRealLiteral(S, unsignedVal, digits, digits, TRUE)
    ELSE signedLiteral(S, unsignedVal)

----------------------------------------------------------------------------
(* Token dispatch. *)

Tok(L, kind) == [L EXCEPT !.kind = kind]

\* Either without the consumption of the byte.
EitherWithoutConsume(L, c, a, b) == IF peek(L, 0) = c THEN Tok(L, a) ELSE Tok(L, b)

\* The byte under the cursor is c: consume it and return kind a, else kind b.
Either(L, c, a, b) == IF peek(L, 0) = c THEN Tok(advance(L, 1), a) ELSE Tok(L, b)

Unknown(L) == [L EXCEPT !.kind = "Unknown", !.data = IdentifierInfo(L, "Unknown")]

\* The operator and punctuation cases of lexToken; c is consumed.
lexOperator(L, c) ==
    LET p0 == peek(L, 0)
        p1 == peek(L, 1)
        p2 == peek(L, 2)
        A1 == advance(L, 1)
        A2 == advance(L, 2)
        A3 == advance(L, 3)
    IN
    CASE c = Ch["!"] ->
            IF p0 = Ch["="] THEN
                (IF p1 = Ch["="] THEN Tok(A2, "ExclamationDoubleEquals")
                 ELSE IF p1 = Ch["?"] THEN Tok(A2, "ExclamationEqualsQuestion")
                 ELSE Tok(A1, "ExclamationEquals"))
            ELSE Tok(L, "Exclamation")
      [] c = Ch["#"] ->
            IF p0 = Ch["#"] THEN Tok(A1, "DoubleHash")
            ELSE IF p0 = Ch["-"] /\ p1 = Ch["#"] THEN Tok(A2, "HashMinusHash")
            ELSE IF p0 = Ch["="] /\ p1 = Ch["#"] THEN Tok(A2, "HashEqualsHash")
            ELSE Tok(L, "Hash")
      [] c = Ch["%"] -> Either(L, Ch["="], "PercentEqual", "Percent")
      [] c = Ch["&"] ->
            IF p0 = Ch["&"] THEN Either(A1, Ch["&"], "TripleAnd", "DoubleAnd")
            ELSE IF p0 = Ch["="] THEN Tok(A1, "AndEqual")
            ELSE Tok(L, "And")
      [] c = Ch["("] -> Either(L, Ch["*"], "OpenParenthesisStar", "OpenParenthesis")
      [] c = Ch[")"] -> Tok(L, "CloseParenthesis")
      [] c = Ch["*"] ->
            IF p0 = Ch["*"] THEN Tok(A1, "DoubleStar")
            ELSE IF p0 = Ch["="] THEN Tok(A1, "StarEqual")
            ELSE IF p0 = Ch[">"] THEN Tok(A1, "StarArrow")
            ELSE IF p0 = Ch[")"] THEN Tok(A1, "StarCloseParenthesis")
            ELSE IF p0 = Ch[":"] /\ p1 = Ch[":"] /\ p2 = Ch["*"]
                 THEN Tok(A3, "StarDoubleColonStar")
            ELSE Tok(L, "Star")
      [] c = Ch["+"] ->
            IF p0 = Ch["+"] THEN Tok(A1, "DoublePlus")
            ELSE IF p0 = Ch["="] THEN Tok(A1, "PlusEqual")
            ELSE IF p0 = Ch[":"] THEN Tok(A1, "PlusColon")
            ELSE Tok(L, "Plus")
      [] c = Ch[","] -> Tok(L, "Comma")
      [] c = Ch["-"] ->
            IF p0 = Ch["-"] THEN Tok(A1, "DoubleMinus")
            ELSE IF p0 = Ch["="] THEN Tok(A1, "MinusEqual")
            ELSE IF p0 = Ch[":"] THEN Tok(A1, "MinusColon")
            ELSE IF p0 = Ch[">"] THEN Either(A1, Ch[">"], "MinusDoubleArrow", "MinusArrow")
            ELSE Tok(L, "Minus")
      [] c = Ch["."] -> Either(L, Ch["*"], "DotStar", "Dot")
      [] c = Ch["/"] -> Either(L, Ch["="], "SlashEqual", "Slash")
      [] c = Ch[":"] ->
            IF p0 = Ch["="] THEN Tok(A1, "ColonEquals")
            ELSE IF p0 = Ch["/"] THEN Tok(A1, "ColonSlash")
            ELSE IF p0 = Ch[":"] THEN Tok(A1, "DoubleColon")
            ELSE Tok(L, "Colon")
      [] c = Ch[";"] -> Tok(L, "Semicolon")
      [] c = Ch["<"] ->
            IF p0 = Ch["="] THEN Tok(A1, "LessThanEquals")
            ELSE IF p0 = Ch["-"] THEN
                (IF p1 = Ch[">"] THEN Tok(A2, "LessThanMinusArrow") ELSE Tok(L, "LessThan"))
            ELSE IF p0 = Ch["<"] THEN
                (IF p1 = Ch["<"] THEN
                    (IF p2 = Ch["="] THEN Tok(A3, "TripleLeftShiftEqual")
                     ELSE Tok(A2, "TripleLeftShift"))
                 ELSE IF p1 = Ch["="] THEN Tok(A2, "LeftShiftEqual")
                 ELSE Tok(A1, "LeftShift"))
            ELSE Tok(L, "LessThan")
      [] c = Ch["="] ->
            IF p0 = Ch["="] THEN
                (IF p1 = Ch["="] THEN Tok(A2, "TripleEquals")
                 ELSE IF p1 = Ch["?"] THEN Tok(A2, "DoubleEqualsQuestion")
                 ELSE Tok(A1, "DoubleEquals"))
            ELSE IF p0 = Ch[">"] THEN Tok(A1, "EqualsArrow")
            ELSE Tok(L, "Equals")
      [] c = Ch[">"] ->
            IF p0 = Ch["="] THEN Tok(A1, "GreaterThanEquals")
            ELSE IF p0 = Ch[">"] THEN
                (IF p1 = Ch[">"] THEN
                    (IF p2 = Ch["="] THEN Tok(A3, "TripleRightShiftEqual")
                     ELSE Tok(A2, "TripleRightShift"))
                 ELSE IF p1 = Ch["="] THEN Tok(A2, "RightShiftEqual")
                 ELSE Tok(A1, "RightShift"))
            ELSE Tok(L, "GreaterThan")
      [] c = Ch["?"] -> Tok(L, "Question")
      [] c = Ch["@"] -> Either(L, Ch["@"], "DoubleAt", "At")
      [] c = Ch["["] -> Tok(L, "OpenBracket")
      [] c = Ch["]"] -> Tok(L, "CloseBracket")
      [] c = Ch["^"] ->
            IF p0 = Ch["~"] THEN Tok(A1, "XorTilde")
            ELSE IF p0 = Ch["="] THEN Tok(A1, "XorEqual")
            ELSE Tok(L, "Xor")
      [] c = Ch["{"] -> Tok(L, "OpenBrace")
      [] c = Ch["|"] ->
            IF p0 = Ch["|"] THEN Tok(A1, "DoubleOr")
            ELSE IF p0 = Ch["-"] THEN
                (IF p1 = Ch[">"] THEN Tok(A2, "OrMinusArrow") ELSE Tok(L, "Or"))
            ELSE IF p0 = Ch["="] THEN
                (IF p1 = Ch[">"] THEN Tok(A2, "OrEqualsArrow") ELSE Tok(A1, "OrEqual"))
            ELSE Tok(L, "Or")
      [] c = Ch["}"] -> Tok(L, "CloseBrace")
      [] c = Ch["~"] ->
            IF p0 = Ch["&"] THEN Tok(A1, "TildeAnd")
            ELSE IF p0 = Ch["|"] THEN Tok(A1, "TildeOr")
            ELSE IF p0 = Ch["^"] THEN Tok(A1, "TildeXor")
            ELSE Tok(L, "Tilde")

OperatorLeads ==
    {Ch[s] : s \in {"!", "#", "%", "&", "(", ")", "*", "+", ",", "-", ".", "/", ":", ";",
                    "<", "=", ">", "?", "@", "[", "]", "^", "{", "|", "}", "~"}}

\* lexToken; L.mark is the start of the token.
lexToken(L) ==
    LET c == peek(L, 0)
        A == advance(L, 1)
    IN
    IF c = 0 THEN
        \* sourceBuffer <= sourceEnd, after the advance
        IF A.pos <= sourceEnd THEN Unknown(addError(A, "EmbeddedNull"))
        ELSE Tok(A, "EndOfFile")
    ELSE IF c = Ch["dq"] THEN lexStringLiteral(A)
    ELSE IF c = Ch["$"] THEN lexDollarSign(A)
    ELSE IF c = Ch["'"] THEN
        IF peek(A, 0) = Ch["{"] THEN Tok(advance(A, 1), "ApostropheOpenBrace")
        ELSE Tok(lexUnsizedNumericLiteral(A), "IntegerLiteral")
    ELSE IF isDecimalDigit(c) THEN
        \* back up so that lexNumericLiteral can look at this digit again
        lexNumericLiteral(advance(A, -1))
    ELSE IF (c \in 65..90) \/ (c \in 97..122) \/ c = Ch["_"] THEN
        LET R == scanIdentifier(A) IN
        [R EXCEPT !.kind = "Identifier", !.data = IdentifierInfo(R, "Normal")]
    ELSE IF c = Ch["bs"] THEN lexEscapeSequence(A)
    ELSE IF c = Ch["bq"] THEN
        IF peek(A, 0) = Ch["dq"] THEN Tok(advance(A, 1), "MacroQuote")
        ELSE IF peek(A, 0) = Ch["bq"] THEN Tok(advance(A, 1), "MacroPaste")
        ELSE IF peek(A, 0) = Ch["bs"] /\ peek(A, 1) = Ch["bq"] /\ peek(A, 2) = Ch["dq"]
             THEN Tok(advance(A, 3), "MacroEscapedQuote")
        ELSE lexDirective(A)
    ELSE IF c \in OperatorLeads THEN lexOperator(A, c)
    ELSE IF isASCII(c) THEN Unknown(addError(A, "NonPrintableChar"))
    ELSE Unknown(addError(advance(A, utf8SeqBytes(c)), "UTF8Char"))

----------------------------------------------------------------------------
(* The inputs. *)

\* The operators and punctuation of SystemVerilog: the bytes of each and its
\* token kind.
OperatorTable ==
    {[lex |-> Bytes(e[1]), kind |-> e[2]] : e \in {
        <<<<"!">>, "Exclamation">>, <<<<"!","=">>, "ExclamationEquals">>,
        <<<<"!","=","=">>, "ExclamationDoubleEquals">>,
        <<<<"!","=","?">>, "ExclamationEqualsQuestion">>, <<<<"#">>, "Hash">>,
        <<<<"#","#">>, "DoubleHash">>, <<<<"#","-","#">>, "HashMinusHash">>,
        <<<<"#","=","#">>, "HashEqualsHash">>, <<<<"%">>, "Percent">>,
        <<<<"%","=">>, "PercentEqual">>, <<<<"&">>, "And">>, <<<<"&","&">>, "DoubleAnd">>,
        <<<<"&","&","&">>, "TripleAnd">>, <<<<"&","=">>, "AndEqual">>,
        <<<<"'","{">>, "ApostropheOpenBrace">>, <<<<"(">>, "OpenParenthesis">>,
        <<<<"(","*">>, "OpenParenthesisStar">>, <<<<")">>, "CloseParenthesis">>,
        <<<<"*">>, "Star">>, <<<<"*","*">>, "DoubleStar">>, <<<<"*","=">>, "StarEqual">>,
        <<<<"*",">">>, "StarArrow">>, <<<<"*",")">>, "StarCloseParenthesis">>,
        <<<<"*",":",":","*">>, "StarDoubleColonStar">>, <<<<"+">>, "Plus">>,
        <<<<"+","+">>, "DoublePlus">>, <<<<"+","=">>, "PlusEqual">>,
        <<<<"+",":">>, "PlusColon">>, <<<<",">>, "Comma">>, <<<<"-">>, "Minus">>,
        <<<<"-","-">>, "DoubleMinus">>, <<<<"-","=">>, "MinusEqual">>,
        <<<<"-",":">>, "MinusColon">>, <<<<"-",">">>, "MinusArrow">>,
        <<<<"-",">",">">>, "MinusDoubleArrow">>, <<<<".">>, "Dot">>,
        <<<<".","*">>, "DotStar">>, <<<<"/">>, "Slash">>, <<<<"/","=">>, "SlashEqual">>,
        <<<<":">>, "Colon">>, <<<<":","=">>, "ColonEquals">>,
        <<<<":","/">>, "ColonSlash">>, <<<<":",":">>, "DoubleColon">>,
        <<<<";">>, "Semicolon">>, <<<<"<">>, "LessThan">>,
        <<<<"<","=">>, "LessThanEquals">>, <<<<"<","-",">">>, "LessThanMinusArrow">>,
        <<<<"<","<">>, "LeftShift">>, <<<<"<","<","<">>, "TripleLeftShift">>,
        <<<<"<","<","=">>, "LeftShiftEqual">>,
        <<<<"<","<","<","=">>, "TripleLeftShiftEqual">>, <<<<"=">>, "Equals">>,
        <<<<"=","=">>, "DoubleEquals">>, <<<<"=","=","=">>, "TripleEquals">>,
        <<<<"=","=","?">>, "DoubleEqualsQuestion">>, <<<<"=",">">>, "EqualsArrow">>,
        <<<<">">>, "GreaterThan">>, <<<<">","=">>, "GreaterThanEquals">>,
        <<<<">",">">>, "RightShift">>, <<<<">",">",">">>, "TripleRightShift">>,
        <<<<">",">","=">>, "RightShiftEqual">>,
        <<<<">",">",">","=">>, "TripleRightShiftEqual">>, <<<<"?">>, "Question">>,
        <<<<"@">>, "At">>, <<<<"@","@">>, "DoubleAt">>, <<<<"[">>, "OpenBracket">>,
        <<<<"]">>, "CloseBracket">>, <<<<"^">>, "Xor">>, <<<<"^","~">>, "XorTilde">>,
        <<<<"^","=">>, "XorEqual">>, <<<<"{">>, "OpenBrace">>, <<<<"|">>, "Or">>,
        <<<<"|","|">>, "DoubleOr">>, <<<<"|","-",">">>, "OrMinusArrow">>,
        <<<<"|","=",">">>, "OrEqualsArrow">>, <<<<"|","=">>, "OrEqual">>,
        <<<<"}">>, "CloseBrace">>, <<<<"~">>, "Tilde">>, <<<<"~","&">>, "TildeAnd">>,
        <<<<"~","|">>, "TildeOr">>, <<<<"~","^">>, "TildeXor">>
    }}

MaxLen == 3
MaxZeros == 19

\* The buffers that are enumerated in full: every sequence of at most MaxLen
\* bytes of one of three alphabets.
TextAlphabet ==
    {Ch[s] : s \in {"NUL", " ", "LF", "dq", "bs", "/", "*", "bq", "a", "x", "$",
                    "xE2", "x01"}}

NumberAlphabet == {Ch[s] : s \in {"0", "1", "9", "_", "'", ".", "e", "b", " ", "-"}}

OperatorAlphabet == {Ch[s] : s \in {"<", "=", ">", "-", "#", "|", "*", ":", "&"}}

Sequences(A) == UNION {[1..n -> A] : n \in 0..MaxLen}

ShortBuffers == Sequences(TextAlphabet) \cup Sequences(NumberAlphabet)
                    \cup Sequences(OperatorAlphabet)

\* The bytes that follow a directive in the enumerated buffers.
DirectiveAlphabet == {Ch[s] : s \in {"NUL", " ", "LF", "CR", "bs", "/", "*", "a"}}

DirectiveBuffers ==
    {Bytes(d) \o t : d \in {<<"bq","d","e","f","i","n","e">>,
                            <<"bq","i","n","c","l","u","d","e">>,
                            <<"bq","m">>},
                     t \in Sequences(DirectiveAlphabet)}

Zeros(k) == [i \in 1..k |-> Ch["0"]]

\* Decimal literals: a lead, a run of zeros, a tail.
NumberBuffers ==
    {Bytes(l) \o Zeros(k) \o Bytes(t) :
        l \in {<<>>, <<"0","_">>, <<"1">>, <<"1","_">>, <<"9","9">>},
        k \in 0..MaxZeros,
        t \in {<<>>, <<"1">>, <<"_","7">>,
               <<"2","1","4","7","4","8","3","6","4","7">>,
               <<"2","1","4","7","4","8","3","6","4","8">>,
               <<"3","0","0","0","0","0","0","0","0","0">>}}

\* The concrete scenarios of the specification, and a few more.
Scenarios ==
    {Bytes(s) : s \in {
        <<"bq","d","e","f","i","n","e"," ","X"," ","1","LF","+"," ","2">>,
        <<"bq","d","e","f","i","n","e"," ","X"," ","1"," ","bs","LF","+"," ","2">>,
        <<"bq","d","e","f","i","n","e"," ","X"," ","/","*","LF","*","/"," ","2","LF">>,
        <<"2","1","4","7","4","8","3","6","4","8">>,
        <<"2","1","4","7","4","8","3","6","4","7">>,
        <<"4","'","s","b","1","0","x","z">>,
        <<"'","h","F","F">>,
        <<"1",".","5","e","2">>,
        <<"1","e","5","0","0">>,
        <<"3",".">>,
        <<"dq","a","bs","n","bs","x","4","A","bs","1","0","1","dq">>,
        <<"dq","bs","9","dq">>,
        <<"<","<","<","=">>, <<"<","<","=">>, <<"<","<">>,
        <<"/","*"," ","/","*"," ","*","/">>,
        <<"xFF","xFE","a">>, <<"xFE","xFF">>, <<"xEF","xBB","xBF","a"," ">>,
        <<"a"," ","xEF","xBB","xBF">>,
        <<"dq","a","NUL","b","dq">>,
        <<"/","*","NUL","*","/","a">>,
        <<"/","/","NUL","a","LF","b","LF">>,
        <<"dq","bs","x">>, <<"dq","bs">>, <<"xF0","x80">>, <<"xC3">>,
        <<"1","e","-","2","1","4","7","4","8","3","6","4","8">>
      }}

\* Real literals: a mantissa, e, a sign and a written exponent.
RealBuffers ==
    {Bytes(m) \o Bytes(<<"e">>) \o Bytes(s) \o Bytes(x) :
        m \in {<<"1">>, <<"2","5">>, <<"1",".","5">>, <<"0">>},
        s \in {<<>>, <<"+">>, <<"-">>},
        x \in {<<>>, <<"0">>, <<"0","0">>, <<"7">>, <<"0","7">>, <<"3","0","8">>,
               <<"3","0","9">>, <<"4","9","9">>, <<"5","0","0">>, <<"5","_","0","0">>,
               <<"5","1","1">>, <<"5","1","2">>,
               <<"2","1","4","7","4","8","3","6","4","7">>,
               <<"2","1","4","7","4","8","3","6","4","8">>,
               <<"3","0","0","0","0","0","0","0","0","0">>,
               <<"4","2","9","4","9","6","7","2","9","6">>,
               <<"4","2","9","4","9","6","7","2","9","7">>,
               <<"1","0","0","0","0","0","0","0","0","0","0","0","0","0","0","0","0","0","0">>}}

\* Operators: every prefix of an entry of the table, alone and followed by
\* one more byte of an operator.
OperatorBytes == UNION {{e.lex[j] : j \in 1..Len(e.lex)} : e \in OperatorTable}

OperatorBuffers ==
    {[j \in 1..Min(n, Len(e.lex)) |-> e.lex[j]] \o t :
        e \in OperatorTable,
        n \in 1..4,
        t \in {<<>>} \cup {<<c>> : c \in OperatorBytes}}

\* String literals: a quote, or a quote and a backslash, and then every
\* sequence of at most MaxLen bytes of an alphabet of escapes; and the one
\* byte escapes.
StringAlphabet ==
    {Ch[s] : s \in {"bs", "dq", "n", "x", "3", "7", "4", "A", "LF", "CR"}}

StringBuffers ==
    {h \o s : h \in {<<Ch["dq"]>>, <<Ch["dq"], Ch["bs"]>>}, s \in Sequences(StringAlphabet)}
    \cup {<<Ch["dq"], Ch["bs"], Ch[c], Ch["dq"]>> :
              c \in {"n", "t", "bs", "dq", "v", "f", "a", "b", "0", "8", "NUL", "xE2"}}

\* Byte-order marks, whole and in part, at the start and later.
BomAlphabet == {Ch[s] : s \in {"xFF", "xFE", "xEF", "xBB", "xBF", "a"}}

BomBuffers ==
    {h \o s : h \in {<<>>, Bytes(<<"xEF", "xBB", "xBF">>), Bytes(<<"a", "xFE", "xFF">>)},
              s \in Sequences(BomAlphabet)}

\* Block comments after a directive or a macro usage: the opening, a body
\* with newlines, and a closing or none.
CommentAlphabet == {Ch[s] : s \in {"LF", "CR", "*", "/", "a"}}

CommentBuffers ==
    {Bytes(d) \o Bytes(<<"/", "*">>) \o s \o Bytes(e) :
        d \in {<<"bq","d","e","f","i","n","e"," ">>,
               <<"bq","i","n","c","l","u","d","e">>,
               <<"bq","m"," ">>},
        s \in Sequences(CommentAlphabet),
        e \in {<<>>, <<"*","/">>, <<"*","/"," ","a">>}}

\* Sized vector literals: a size as in NumberBuffers, then the quote and a
\* base with digits or without.
VectorSizeBuffers ==
    {Bytes(l) \o Zeros(k) \o Bytes(s) \o Bytes(b) :
        l \in {<<>>, <<"0","_">>, <<"1">>},
        k \in 0..MaxZeros,
        s \in {<<>>, <<"5">>,
               <<"4","2","9","4","9","6","7","2","9","5">>,
               <<"4","2","9","4","9","6","7","2","9","6">>},
        b \in {<<"'","d","1">>, <<" ","'","s","h","_","f">>, <<"'","b">>}}

\* Vector literals with a base: sized and unsized, the four bases, then
\* digits, logic digits, underscores and bytes that end the run.
VectorAlphabet == {Ch[s] : s \in {"1", "7", "9", "f", "x", "?", "_", " "}}

VectorDigitBuffers ==
    {Bytes(h) \o s : h \in {<<"'","b">>, <<"4","'","s","h">>, <<"2"," ","'","O"," ">>,
                             <<"'","d">>},
                     s \in Sequences(VectorAlphabet)}

\* Trivia in Normal mode: whitespace, newlines and line comments, alone,
\* after the opening of a line comment and before one.
TriviaAlphabet == {Ch[s] : s \in {" ", "TAB", "CR", "LF", "/", "a"}}

TriviaBuffers ==
    {Bytes(h) \o s \o Bytes(e) :
        h \in {<<>>, <<"/","/">>, <<" ","/">>, <<"a","TAB">>},
        s \in Sequences(TriviaAlphabet),
        e \in {<<>>, <<"CR","LF","/","/","b">>}}

Inputs == ShortBuffers \cup DirectiveBuffers \cup NumberBuffers \cup RealBuffers
              \cup OperatorBuffers \cup StringBuffers \cup BomBuffers
              \cup CommentBuffers \cup VectorSizeBuffers \cup VectorDigitBuffers
              \cup TriviaBuffers \cup Scenarios

----------------------------------------------------------------------------
(* The lexer. *)

NoData == [info |-> "None"]

\* Lexer::Lexer without the test of the UTF-16 marks.
LexerCtorUtf8Only(src) ==
    IF Len(src) >= 3 /\ src[1] = 239 /\ src[2] = 187 /\ src[3] = 191
    THEN advance(addError([pos |-> 0, diags |-> <<>>], "UnicodeBOM"), 3)
    ELSE [pos |-> 0, diags |-> <<>>]

\* Lexer::Lexer over the buffer src: the cursor and the diagnostics after
\* construction.
LexerCtor(src) ==
    LET L == [pos |-> 0, diags |-> <<>>] IN
    IF Len(src) >= 2 THEN
        IF \/ (src[1] = 255 /\ src[2] = 254)
           \/ (src[1] = 254 /\ src[2] = 255)
        THEN advance(addError(L, "UnicodeBOM"), 2)
        ELSE IF Len(src) >= 3 /\ src[1] = 239 /\ src[2] = 187 /\ src[3] = 191
             THEN advance(addError(L, "UnicodeBOM"), 3)
             ELSE L
    ELSE L

\* The fields of a lexer just constructed over the buffer src.
Constructed(src) ==
    [source |-> src, sourceBuffer |-> LexerCtor(src).pos,
     diagnostics |-> LexerCtor(src).diags,
     marker |-> -1,            \* nullptr
     mode |-> "Normal", triviaBuffer |-> <<>>, tokens |-> <<>>, status |-> "ready"]

\* The fields of the lexer that runs.
Current ==
    [source |-> source, sourceBuffer |-> sourceBuffer, diagnostics |-> diagnostics,
     marker |-> marker, mode |-> mode, triviaBuffer |-> triviaBuffer,
     tokens |-> tokens, status |-> status]

\* One lexer over a buffer of Inputs; the second one is never run.
Init ==
    /\ source \in Inputs
    /\ assertEnabled \in BOOLEAN
    /\ sourceBuffer = Constructed(source).sourceBuffer
    /\ diagnostics = Constructed(source).diagnostics
    /\ marker = Constructed(source).marker
    /\ mode = Constructed(source).mode
    /\ triviaBuffer = Constructed(source).triviaBuffer
    /\ tokens = Constructed(source).tokens
    /\ status = Constructed(source).status
    /\ other = Constructed(<<>>)
    /\ active = 1

\* The lexer at the entry of lex(), after triviaBuffer.clear().
Entry ==
    [pos |-> sourceBuffer, mark |-> marker, mode |-> mode, diags |-> diagnostics,
     trivia |-> <<>>, str |-> <<>>, data |-> NoData, kind |-> "None",
     num |-> <<>>, digits |-> 0, flag |-> FALSE, hung |-> FALSE, ub |-> FALSE]

\* The token a call returns: its kind and payload, its trivia, the cursor at
\* the entry of the call (before), its lexeme [start, end), what lexTrivia
\* returned (eod), the mode in which lexToken lexed it and the diagnostics
\* the call added (errors).
Token(T, K) ==
    [kind |-> K.kind, data |-> K.data, trivia |-> K.trivia, before |-> sourceBuffer,
     start |-> K.mark, end |-> K.pos, eod |-> T.flag, modeAt |-> T.mode,
     errors |-> SubSeq(K.diags, Len(diagnostics) + 1, Len(K.diags))]

\* The end of lex(): T is the lexer after lexTrivia, K after lexToken.
Returned(T, K) ==
    /\ sourceBuffer' = K.pos
    /\ marker' = K.mark
    /\ mode' = K.mode
    /\ diagnostics' = K.diags
    /\ triviaBuffer' = K.trivia
    /\ tokens' = IF K.hung \/ K.ub THEN tokens ELSE Append(tokens, Token(T, K))
    /\ status' = IF K.hung THEN "hung"
                 ELSE IF K.ub THEN "undefined"
                 ELSE IF K.kind = "EndOfFile" THEN "eof"
                 ELSE "ready"

AfterTrivia(T) == Returned(T, IF T.hung THEN T ELSE lexToken(mark(T)))

\* Lexer::lex of a lexer that writes its diagnostics into the sink of the
\* second lexer too.
LexSharedSink ==
    /\ status = "ready"
    /\ IF assertEnabled /\ reallyAtEnd(Entry)
       THEN /\ status' = "aborted"
            /\ UNCHANGED <<sourceBuffer, marker, mode, diagnostics, triviaBuffer, tokens>>
       ELSE AfterTrivia(lexTrivia(Entry))
    /\ other' = [other EXCEPT !.diagnostics = diagnostics']
    /\ UNCHANGED <<source, assertEnabled, active>>

\* One call of lex().
Lex ==
    /\ status = "ready"
    /\ IF assertEnabled /\ reallyAtEnd(Entry)
       THEN \* ASSERT(!reallyAtEnd()) fails
            /\ status' = "aborted"
            /\ UNCHANGED <<sourceBuffer, marker, mode, diagnostics, triviaBuffer, tokens>>
       ELSE AfterTrivia(lexTrivia(Entry))
    /\ UNCHANGED <<source, assertEnabled, other, active>>

Next == Lex

Spec == Init /\ [][Next]_vars

----------------------------------------------------------------------------
(* Two lexers. *)

\* The buffers of the two lexers.
InputsTwo ==
    {Bytes(s) : s \in {
        <<"bq","d","e","f","i","n","e"," ","X"," ","1","LF","+"," ","2">>,
        <<"bq","i","n","c","l","u","d","e"," ","/","*","LF","*","/","a">>,
        <<"dq","bs","9","dq"," ","3",".">>,
        <<"dq","a","NUL","b","dq">>,
        <<"xEF","xBB","xBF","a"," ">>,
        <<"4","'","s","b","1","0","x","z"," ","$","a">>,
        <<"bq","i","f","d","e","f"," ","A">>,
        <<"a">>,
        <<>>
      }}

InitTwo ==
    /\ source \in InputsTwo
    /\ assertEnabled \in BOOLEAN
    /\ sourceBuffer = Constructed(source).sourceBuffer
    /\ diagnostics = Constructed(source).diagnostics
    /\ marker = Constructed(source).marker
    /\ mode = Constructed(source).mode
    /\ triviaBuffer = Constructed(source).triviaBuffer
    /\ tokens = Constructed(source).tokens
    /\ status = Constructed(source).status
    /\ other \in {Constructed(s) : s \in InputsTwo}
    /\ active = 1

\* The scheduler lets the other lexer run: the two exchange their places.
Switch ==
    /\ source' = other.source
    /\ sourceBuffer' = other.sourceBuffer
    /\ marker' = other.marker
    /\ mode' = other.mode
    /\ diagnostics' = other.diagnostics
    /\ triviaBuffer' = other.triviaBuffer
    /\ tokens' = other.tokens
    /\ status' = other.status
    /\ other' = Current
    /\ active' = 3 - active
    /\ UNCHANGED assertEnabled

NextTwo == Lex \/ Switch

SpecTwo == InitTwo /\ [][NextTwo]_vars

----------------------------------------------------------------------------
(* The token stream. *)

LastTrivia(t) == t.trivia[Len(t.trivia)]

\* The call that returned t consumed a newline as EndOfLine trivia while the
\* mode was Directive or Include: lexTrivia returns true only there and at the
\* block comment that is split in a directive.
DirectiveNewline(t) ==
    t.eod /\ t.trivia # <<>> /\ LastTrivia(t).kind = "EndOfLine"

\* The bytes of the buffer in [from, to).
Slice(from, to) == [i \in 1..(to - from) |-> ByteAt(from + i - 1)]

RECURSIVE TriviaBytes(_, _)
TriviaBytes(trivia, n) ==
    IF n = 0 THEN <<>>
    ELSE TriviaBytes(trivia, n - 1) \o Slice(trivia[n].from, trivia[n].to)

\* The trivia spans and the raw lexemes of the first n tokens, in order.
RECURSIVE StreamBytes(_)
StreamBytes(n) ==
    IF n = 0 THEN <<>>
    ELSE StreamBytes(n - 1) \o TriviaBytes(tokens[n].trivia, Len(tokens[n].trivia))
                            \o Slice(tokens[n].start, tokens[n].end)

\* A plain decimal integer literal: its lexeme is decimal digits and
\* underscores only.
PlainDecimal(t) ==
    /\ t.kind = "IntegerLiteral"
    /\ t.data.type = "int"
    /\ \A i \in t.start..(t.end - 1) : isDecimalDigit(ByteAt(i)) \/ ByteAt(i) = Ch["_"]

\* The decimal value of the digits of the first n bytes of a lexeme, the
\* underscores ignored.
RECURSIVE DecimalValue(_, _)
DecimalValue(raw, n) ==
    IF n = 0 THEN <<>>
    ELSE IF raw[n] = Ch["_"] THEN DecimalValue(raw, n - 1)
    ELSE MulAdd10(DecimalValue(raw, n - 1), getDigitValue(raw[n]))

Emitted(t, code) == \E i \in 1..Len(t.errors) : t.errors[i].code = code

\* The real literals written as digits, e, an optional plus sign and digits:
\* k is the index of the e in the lexeme.
IsDigits(raw, from, to) ==
    /\ \E i \in from..to : isDecimalDigit(raw[i])
    /\ \A i \in from..to : isDecimalDigit(raw[i]) \/ raw[i] = Ch["_"]

ExponentStart(raw, k) == IF raw[k + 1] = Ch["+"] THEN k + 2 ELSE k + 1

IntegerMantissaReal(t, k) ==
    /\ t.kind = "RealLiteral"
    /\ k \in 2..(Len(t.data.raw) - 1)
    /\ t.data.raw[k] \in {Ch["e"], Ch["E"]}
    /\ IsDigits(t.data.raw, 1, k - 1)
    /\ IsDigits(t.data.raw, ExponentStart(t.data.raw, k), Len(t.data.raw))

WrittenMantissa(t, k) == DecimalValue(t.data.raw, k - 1)

\* The digits of the exponent follow the e and the sign, which DecimalValue
\* must not read: the value is that of the suffix.
WrittenExponent(t, k) ==
    LET s == SubSeq(t.data.raw, ExponentStart(t.data.raw, k), Len(t.data.raw))
    IN DecimalValue(s, Len(s))

\* The entries of the table that are a prefix of the buffer at an offset.
OperatorsAt(start) ==
    {e \in OperatorTable : \A j \in 1..Len(e.lex) : ByteAt(start + j - 1) = e.lex[j]}

LongestOf(cands) == CHOOSE e \in cands : \A f \in cands : Len(f.lex) <= Len(e.lex)

IsEntry(t, e) == t.kind = e.kind /\ t.end = t.start + Len(e.lex)

\* The token is the longest of the entries that start where it starts.
Munched(t, cands) == cands # {} => IsEntry(t, LongestOf(cands))

\* The escape table of string literals: the one byte escapes.
SimpleEscapes ==
    (Ch["n"] :> Ch["LF"]) @@ (Ch["t"] :> Ch["TAB"]) @@ (Ch["bs"] :> Ch["bs"])
    @@ (Ch["dq"] :> Ch["dq"]) @@ (Ch["v"] :> Ch["VT"]) @@ (Ch["f"] :> Ch["FF"])
    @@ (Ch["a"] :> Ch["BEL"])

\* The byte at index j of a lexeme, -1 beyond it.
At(raw, j) == IF j <= Len(raw) THEN raw[j] ELSE -1

\* How many of the bytes raw[j], raw[j+1], ... are digits of the kind, up to max.
RECURSIVE DigitRun(_, _, _, _)
DigitRun(raw, j, max, hex) ==
    IF max = 0 \/ j > Len(raw) THEN 0
    ELSE IF (IF hex THEN isHexDigit(raw[j]) ELSE isOctalDigit(raw[j]))
         THEN 1 + DigitRun(raw, j + 1, max - 1, hex)
    ELSE 0

\* The value of the n digits that start at index j, in the radix.
RECURSIVE RadixValue(_, _, _, _)
RadixValue(raw, j, n, radix) ==
    IF n = 0 THEN 0
    ELSE (RadixValue(raw, j, n - 1, radix) * radix) + getHexDigitValue(raw[j + n - 1])

Decoded(acc, b) == [acc EXCEPT !.text = Append(@, b)]
Diagnosed(acc, code) == [acc EXCEPT !.errors = Append(@, code)]

\* The decoding of the body of a string literal by the escape table; raw is
\* the lexeme, i the index of the next byte, acc the bytes and the
\* diagnostics so far.  The byte after an x that no hex digit follows is
\* passed through.
RECURSIVE TableDecode(_, _, _)
TableDecode(raw, i, acc) ==
    IF i > Len(raw) \/ raw[i] = Ch["dq"] THEN acc
    ELSE IF raw[i] # Ch["bs"] THEN TableDecode(raw, i + 1, Decoded(acc, raw[i]))
    ELSE IF At(raw, i + 1) \in DOMAIN SimpleEscapes
         THEN TableDecode(raw, i + 2, Decoded(acc, SimpleEscapes[raw[i + 1]]))
    ELSE IF At(raw, i + 1) = Ch["LF"] THEN TableDecode(raw, i + 2, acc)
    ELSE IF At(raw, i + 1) = Ch["CR"]
         THEN TableDecode(raw, IF At(raw, i + 2) = Ch["LF"] THEN i + 3 ELSE i + 2, acc)
    ELSE IF DigitRun(raw, i + 1, 3, FALSE) > 0
         THEN TableDecode(raw, i + 1 + DigitRun(raw, i + 1, 3, FALSE),
                  IF RadixValue(raw, i + 1, DigitRun(raw, i + 1, 3, FALSE), 8) > 255
                  THEN Diagnosed(acc, "OctalEscapeCodeTooBig")
                  ELSE Decoded(acc, RadixValue(raw, i + 1, DigitRun(raw, i + 1, 3, FALSE), 8)))
    ELSE IF At(raw, i + 1) = Ch["x"] /\ DigitRun(raw, i + 2, 2, TRUE) > 0
         THEN TableDecode(raw, i + 2 + DigitRun(raw, i + 2, 2, TRUE),
                  Decoded(acc, RadixValue(raw, i + 2, DigitRun(raw, i + 2, 2, TRUE), 16)))
    ELSE IF At(raw, i + 1) = Ch["x"]
         THEN TableDecode(raw, i + 3,
                  Decoded(Diagnosed(acc, "InvalidHexEscapeCode"), raw[i + 2]))
    ELSE TableDecode(raw, i + 2, Decoded(Diagnosed(acc, "UnknownEscapeCode"), raw[i + 1]))

EscapeCodes == {"OctalEscapeCodeTooBig", "InvalidHexEscapeCode", "UnknownEscapeCode"}

\* The diagnostics of escapes among those of a token, in order.
RECURSIVE EscapeErrors(_, _)
EscapeErrors(errors, n) ==
    IF n = 0 THEN <<>>
    ELSE IF errors[n].code \in EscapeCodes
         THEN Append(EscapeErrors(errors, n - 1), errors[n].code)
    ELSE EscapeErrors(errors, n - 1)

\* The length of the byte-order mark the buffer starts with, 0 without one.
BomLength ==
    IF Len(source) >= 2 /\ SubSeq(source, 1, 2) \in {<<255, 254>>, <<254, 255>>} THEN 2
    ELSE IF Len(source) >= 3 /\ SubSeq(source, 1, 3) = <<239, 187, 191>> THEN 3
    ELSE 0

\* The indices of the diagnostics with a code.
DiagnosticsOf(code) == {i \in 1..Len(diagnostics) : diagnostics[i].code = code}

----------------------------------------------------------------------------
(* Properties. *)

\* C1: repeated calls of lex() end with a token of kind EndOfFile, which is
\* the last token of the stream and whose consumed byte is the end sentinel.
\* Every call returns a token or stops the run, so the calls stop only by
\* having returned EndOfFile, and an EndOfFile token is the last one and starts
\* at the sentinel.
C1_StreamEndsWithEndOfFile ==
    /\ status \in {"ready", "eof"}
    /\ \A i \in 1..Len(tokens) :
          tokens[i].kind = "EndOfFile" =>
              i = Len(tokens) /\ status = "eof" /\ tokens[i].start = sourceEnd

\* C2: every call of lex() terminates: no scanning loop iterates without
\* advancing the cursor or leaving the loop.
C2_EveryCallTerminates == status # "hung"

\* C3: after construction and after every call of lex() the cursor is not
\* beyond the end sentinel (it is one past it only once EndOfFile has
\* consumed it).
C3_CursorWithinBuffer ==
    \/ sourceBuffer <= sourceEnd
    \/ status = "eof" /\ sourceBuffer = sourceEnd + 1

\* C4: the entry assertion of lex(), the cursor is not at the true end, holds
\* at every call made before EndOfFile has been returned, and no call aborts.
C4_EntryAssertionHolds ==
    /\ status # "aborted"
    /\ status = "ready" => ~reallyAtEnd(Entry)

\* C5: a newline consumed in Directive or Include mode makes lex() return
\* EndOfDirective before any token whose lexeme starts after that newline.
C5_EndOfDirectiveReturned ==
    \A i \in 1..Len(tokens) :
        DirectiveNewline(tokens[i]) => tokens[i].kind = "EndOfDirective"

\* C6: after a newline consumed as EndOfLine trivia in Directive or Include
\* mode, the mode is Normal when the next token is lexed.
C6_ModeNormalAfterDirective ==
    \A i \in 1..Len(tokens) :
        DirectiveNewline(tokens[i]) => tokens[i].modeAt = "Normal"

\* C7: in Directive or Include mode a backslash immediately followed by a
\* newline is trivia: no token lexed in that mode starts at such a backslash.
C7_EscapedNewlineIsTrivia ==
    \A i \in 1..Len(tokens) :
        tokens[i].modeAt # "Normal" =>
            ~(/\ ByteAt(tokens[i].start) = Ch["bs"]
              /\ isNewline(ByteAt(tokens[i].start + 1)))

\* C8: once EndOfFile is returned, the trivia spans and the raw lexemes of
\* the tokens, concatenated in order of return, are the buffer with its
\* sentinel, byte for byte.
C8_StreamReproducesBuffer ==
    status = "eof" => StreamBytes(Len(tokens)) = Append(source, 0)

\* C9: every call of lex() that returns a token other than EndOfFile leaves
\* the cursor strictly beyond where it was at the entry of the call, and the
\* lexeme of the token is not empty.
C9_TokenConsumesByte ==
    \A i \in 1..Len(tokens) :
        tokens[i].kind # "EndOfFile" =>
            /\ tokens[i].end > tokens[i].before
            /\ tokens[i].end > tokens[i].start
            /\ tokens[i].start >= tokens[i].before

\* A numeric literal of one digit has been returned: the dispatcher consumed
\* the digit, backed up over it and lexNumericLiteral consumed it again.
C9_OneDigitLiteralReturned ==
    \E i \in 1..Len(tokens) :
        /\ tokens[i].kind = "IntegerLiteral"
        /\ isDecimalDigit(ByteAt(tokens[i].start))
        /\ ByteAt(tokens[i].start) # Ch["0"]
        /\ tokens[i].end = tokens[i].start + 1
        /\ tokens[i].before = tokens[i].start
        /\ sourceBuffer >= tokens[i].end

\* C10: the value stored for a plain decimal integer literal is
\* min(V, INT32_MAX), V the decimal value of its digits, and
\* SignedLiteralTooLarge is emitted exactly when V > INT32_MAX.
C10_DecimalLiteralValue ==
    \A i \in 1..Len(tokens) :
        PlainDecimal(tokens[i]) =>
            LET big == NumGreater(DecimalValue(tokens[i].data.raw,
                                               Len(tokens[i].data.raw)), INT32_MAX)
            IN /\ tokens[i].data.value =
                      IF big THEN INT32_MAX
                      ELSE DecimalValue(tokens[i].data.raw, Len(tokens[i].data.raw))
               /\ Emitted(tokens[i], "SignedLiteralTooLarge") <=> big

\* C11: a real literal with an integer mantissa of at least 1 and a written
\* non-negative exponent of 500 or more emits RealExponentTooLarge.
C11_LargeExponentDiagnosed ==
    \A i \in 1..Len(tokens) :
        \A k \in 1..(tokens[i].end - tokens[i].start) :
            (/\ IntegerMantissaReal(tokens[i], k)
             /\ WrittenMantissa(tokens[i], k) # <<>>
             /\ NumGreater(WrittenExponent(tokens[i], k), <<4,9,9>>))
            => Emitted(tokens[i], "RealExponentTooLarge")

\* C12: operator lexing is maximal munch.  A token that starts where an
\* entry of the operator table starts has the kind of the longest such entry
\* and exactly its bytes as lexeme; what follows is left for the next token.
C12_OperatorMaximalMunch ==
    \A i \in 1..Len(tokens) :
        /\ Munched(tokens[i], OperatorsAt(tokens[i].start))
        /\ (i < Len(tokens) => tokens[i + 1].before = tokens[i].end)

\* A Hash has been returned for a buffer that goes on with a minus sign which
\* no second hash follows, and the minus sign starts the next token.
C12_IncompleteCandidateReturned ==
    \E i \in 1..Len(tokens) :
        /\ tokens[i].kind = "Hash"
        /\ ByteAt(tokens[i].start + 1) = Ch["-"]
        /\ ByteAt(tokens[i].start + 2) # Ch["#"]
        /\ i < Len(tokens)
        /\ tokens[i + 1].start = tokens[i].start + 1
        /\ tokens[i + 1].kind \in {"Minus", "MinusArrow", "MinusColon", "MinusEqual"}

C14_BomOnlyAtStart ==
    /\ (tokens = <<>> /\ status = "ready") => sourceBuffer = BomLength
    /\ tokens # <<>> => tokens[1].before = BomLength
    /\ DiagnosticsOf("UnicodeBOM") = IF BomLength > 0 THEN {1} ELSE {}
    /\ \A i \in DiagnosticsOf("UnicodeBOM") : diagnostics[i].at = 0
    /\ \A i \in 1..Len(tokens) : ~Emitted(tokens[i], "UnicodeBOM")

\* A buffer that starts with a mark and holds the bytes of a mark again
\* later has been lexed to its end.
C14_LaterMarkLexed ==
    /\ status = "eof"
    /\ BomLength = 3
    /\ Len(source) >= 5
    /\ SubSeq(source, 4, 5) = <<254, 255>>
    /\ Len(tokens) >= 2

\* C15: diagnostics are accumulated in source order.  No call of lex()
\* removes or reorders the diagnostics already there, and the cursor offsets
\* at which the diagnostics were emitted never decrease along the list.
C15_DiagnosticsInSourceOrder ==
    /\ [](\A i \in 1..Len(diagnostics) : \A j \in i..Len(diagnostics) :
              diagnostics[i].at <= diagnostics[j].at)
    /\ [][/\ Len(diagnostics') >= Len(diagnostics)
           /\ SubSeq(diagnostics', 1, Len(diagnostics)) = diagnostics]_vars

\* Two calls have each added a diagnostic, the second while lexing a numeric
\* literal, for which the dispatcher backs the cursor up.
C15_DiagnosticAfterBackUp ==
    /\ Len(tokens) >= 2
    /\ tokens[1].errors # <<>>
    /\ tokens[2].errors # <<>>
    /\ tokens[2].kind \in {"IntegerLiteral", "RealLiteral"}
    /\ isDecimalDigit(ByteAt(tokens[2].start))
    /\ diagnostics[1].at < diagnostics[Len(diagnostics)].at

----------------------------------------------------------------------------
(* C16 *)

\* The fields of lexer k, whichever of the two runs.
LexerFields(k) == IF active = k THEN Current ELSE other

\* The fields of lexer k in the next state.
LexerFieldsNext(k) == IF active' = k THEN Current' ELSE other'

\* The number of lex() calls a lexer has made.
Calls(p) ==
    Len(p.tokens) + (IF p.status \in {"aborted", "hung", "undefined"} THEN 1 ELSE 0)

----------------------------------------------------------------------------
(* C17 *)

\* The trivia of token t are adjacent, in source order, and fill the bytes
\* between the cursor at the entry of the call and the token's mark.
TriviaAbut(t) ==
    /\ \A j \in 1..Len(t.trivia) : t.trivia[j].from < t.trivia[j].to
    /\ \A j \in 1..(Len(t.trivia) - 1) : t.trivia[j].to = t.trivia[j + 1].from
    /\ IF t.trivia = <<>> THEN t.before = t.start
       ELSE t.trivia[1].from = t.before /\ LastTrivia(t).to = t.start

\* C17: for every token returned by lex(), mark <= position and the lexeme
\* stored with the token is exactly the bytes [mark, position); the trivia
\* attached to it are those scanned during its call (the buffer holds them
\* and nothing older), their spans are adjacent and in source order, the
\* first starts where the previous token's lexeme ended and the last ends at
\* the token's mark.
C17_LexemeAndTriviaSpans ==
    \A i \in 1..Len(tokens) :
        /\ tokens[i].start <= tokens[i].end
        /\ "raw" \in DOMAIN tokens[i].data
              => tokens[i].data.raw = Slice(tokens[i].start, tokens[i].end)
        /\ TriviaAbut(tokens[i])
        /\ i > 1 => tokens[i].before = tokens[i - 1].end
        /\ i = Len(tokens) /\ status \in {"ready", "eof"} =>
              /\ triviaBuffer = tokens[i].trivia
              /\ marker = tokens[i].start /\ sourceBuffer = tokens[i].end

\* A token after the first was returned with two trivia or more and a
\* lexeme of its own.
C17_TokenWithTriviaReturned ==
    \E i \in 2..Len(tokens) :
        /\ Len(tokens[i].trivia) >= 2
        /\ "raw" \in DOMAIN tokens[i].data
        /\ tokens[i].end > tokens[i].start

----------------------------------------------------------------------------
(* C18 *)

\* The mode lexing token t leaves behind, given the mode modeAt in which
\* lexToken started: only a token that begins with a backquote and has a
\* name after it is resolved, and only a resolved directive changes the mode.
ModeAfter(t) ==
    IF t.kind = "Directive"
    THEN IF t.data.type = "IncludeDirective" THEN "Include" ELSE "Directive"
    ELSE t.modeAt

\* What lexing a backquote yields: Unknown with MisplacedDirectiveChar for a
\* bare backquote, MacroUsage or Directive by the resolved kind for a
\* backquote with a name; the macro operators that begin with a backquote
\* and every other token are neither a MacroUsage nor a Directive.
BackquoteResolved(t) ==
    IF /\ ByteAt(t.start) = Ch["bq"] /\ t.end > t.start
       /\ t.kind \notin {"MacroQuote", "MacroPaste", "MacroEscapedQuote"}
    THEN IF t.end - t.start = 1
         THEN t.kind = "Unknown" /\ Emitted(t, "MisplacedDirectiveChar")
         ELSE /\ t.data.raw = Slice(t.start, t.end)
              /\ t.data.type = getDirectiveKind(t.data.raw)
              /\ t.kind = (IF t.data.type = "MacroUsage" THEN "MacroUsage" ELSE "Directive")
    ELSE t.kind \notin {"MacroUsage", "Directive"}

\* C18: the mode starts as Normal; a lex() call changes it to a value other
\* than Normal only by lexing a directive token.  A backquote-identifier
\* resolved as MacroUsage yields a MacroUsage token and the mode stays; one
\* resolved as IncludeDirective yields a Directive token and mode Include;
\* any other yields a Directive token and mode Directive; lexing a token of
\* any other kind, a bare backquote (Unknown, MisplacedDirectiveChar)
\* included, leaves the mode as it was when the token was begun.  Before the
\* token, trivia scanning can only keep the mode or reset it to Normal.
C18_ModeChangesOnlyByDirective ==
    /\ mode = "Normal"
    /\ [][active' = active =>
            IF Len(tokens') = Len(tokens) + 1
            THEN /\ BackquoteResolved(tokens'[Len(tokens')])
                 /\ mode' = ModeAfter(tokens'[Len(tokens')])
                 /\ tokens'[Len(tokens')].modeAt \in {mode, "Normal"}
                 /\ (mode' # mode /\ mode' # "Normal"
                        => tokens'[Len(tokens')].kind = "Directive")
            ELSE mode' \in {mode, "Normal"}]_vars

\* An include directive was lexed and then an identifier: the mode is
\* still Include.
C18_IncludeThenIdentifier ==
    /\ Len(tokens) >= 2
    /\ tokens[1].kind = "Directive" /\ tokens[1].data.type = "IncludeDirective"
    /\ tokens[Len(tokens)].kind = "Identifier"
    /\ mode = "Include"

----------------------------------------------------------------------------
(* C19 *)

\* The first byte of the lexeme of token t.
FirstByte(t) == ByteAt(t.start)

\* C19: no horizontal whitespace byte (space, tab, vertical tab, form feed)
\* and no newline byte (CR, LF) is the first byte of a token's lexeme, in
\* any mode; and a token diagnosed NonPrintableChar is an Unknown token
\* whose first byte is ASCII, not printable and not whitespace.
C19_NoTokenStartsAtWhitespace ==
    \A i \in 1..Len(tokens) :
        tokens[i].end > tokens[i].start =>
            /\ ~isHorizontalWhitespace(FirstByte(tokens[i]))
            /\ ~isNewline(FirstByte(tokens[i]))
            /\ Emitted(tokens[i], "NonPrintableChar") =>
                  /\ tokens[i].kind = "Unknown"
                  /\ isASCII(FirstByte(tokens[i]))
                  /\ ~isPrintable(FirstByte(tokens[i]))

----------------------------------------------------------------------------
(* C20 *)

\* The mode at the entry of the call that returned token i.
EntryMode(i) == IF i = 1 THEN "Normal" ELSE ModeAfter(tokens[i - 1])

\* The trivium v has a newline byte in it.
HasNewline(v) == \E p \in v.from..(v.to - 1) : isNewline(ByteAt(p))

\* The SplitBlockCommentInDirective diagnostics of token t emitted within
\* the trivium v.
SplitsIn(t, v) ==
    {k \in 1..Len(t.errors) :
        /\ t.errors[k].code = "SplitBlockCommentInDirective"
        /\ v.from < t.errors[k].at /\ t.errors[k].at <= v.to}

\* The trivium v is a whole block comment: from the opening to the closing,
\* or to the end of the buffer when the comment is not closed.
WholeComment(t, v) ==
    /\ ByteAt(v.from) = Ch["/"] /\ ByteAt(v.from + 1) = Ch["*"]
    /\ \/ v.to - v.from >= 4 /\ ByteAt(v.to - 2) = Ch["*"] /\ ByteAt(v.to - 1) = Ch["/"]
       \/ v.to = sourceEnd /\ Emitted(t, "UnterminatedBlockComment")

\* What C20 says of the j-th trivium of token t, a block comment with a
\* newline in it, scanned in the mode entryMode.
SplitComment(t, j, entryMode) ==
    IF entryMode # "Normal"
    THEN /\ Cardinality(SplitsIn(t, t.trivia[j])) = 1
         /\ t.modeAt = "Normal"
         /\ WholeComment(t, t.trivia[j])
         /\ j = Len(t.trivia)
         /\ t.eod
    ELSE /\ ~Emitted(t, "SplitBlockCommentInDirective")
         /\ ~t.eod
         /\ t.modeAt = "Normal"

\* C20: a block comment with a newline in it, scanned while the mode is
\* Directive or Include, emits SplitBlockCommentInDirective exactly once,
\* however many newlines it has, sets the mode to Normal, is one BlockComment
\* trivium that covers the whole comment, and is the last trivium of its
\* call, lexTrivia returning the end-of-directive signal; in Normal mode such
\* a comment produces no diagnostic and no signal.
C20_SplitBlockCommentOnce ==
    \A i \in 1..Len(tokens) :
        \A j \in 1..Len(tokens[i].trivia) :
            tokens[i].trivia[j].kind = "BlockComment" /\ HasNewline(tokens[i].trivia[j])
                => SplitComment(tokens[i], j, EntryMode(i))

\* A closed block comment with two newlines or more was scanned in
\* Directive mode.
C20_TwoNewlinesInDirectiveComment ==
    \E i \in 2..Len(tokens) :
        /\ EntryMode(i) = "Directive"
        /\ tokens[i].trivia # <<>>
        /\ LastTrivia(tokens[i]).kind = "BlockComment"
        /\ Cardinality({p \in LastTrivia(tokens[i]).from..(LastTrivia(tokens[i]).to - 1) :
                            ByteAt(p) = Ch["LF"]}) >= 2
        /\ ByteAt(LastTrivia(tokens[i]).to - 2) = Ch["*"]
        /\ ByteAt(LastTrivia(tokens[i]).to - 1) = Ch["/"]
        /\ ~Emitted(tokens[i], "UnterminatedBlockComment")
        /\ Emitted(tokens[i], "SplitBlockCommentInDirective")
        /\ tokens[i].eod

----------------------------------------------------------------------------
(* C21 *)

\* The offsets in [from, to) that hold an embedded NUL: a NUL byte before
\* the end sentinel.
EmbeddedNuls(from, to) ==
    {p \in from..(to - 1) : p < sourceEnd /\ ByteAt(p) = 0}

\* The embedded NULs of the call that returned t which lie in a line
\* comment or a block comment, in the lexeme of a string literal, or at the
\* position where the token was dispatched.
ScannedNuls(t) ==
    UNION {EmbeddedNuls(t.trivia[j].from, t.trivia[j].to) :
              j \in {k \in 1..Len(t.trivia) :
                         t.trivia[k].kind \in {"LineComment", "BlockComment"}}}
    \cup (IF t.kind = "StringLiteral" THEN EmbeddedNuls(t.start, t.end)
          ELSE EmbeddedNuls(t.start, t.start + 1))

\* The EmbeddedNull diagnostics of the call that returned t.
EmbeddedNullErrors(t) == {k \in 1..Len(t.errors) : t.errors[k].code = "EmbeddedNull"}

\* C21: an embedded NUL is diagnosed once and skipped wherever it occurs.
\* No call is left scanning for ever at an embedded NUL it has diagnosed;
\* every returned token carries exactly one EmbeddedNull per embedded NUL of
\* its comments, of its string literal or of its dispatch position; a token
\* dispatched at an embedded NUL is Unknown with that one byte as lexeme;
\* and the end sentinel is never diagnosed as EmbeddedNull (the EndOfFile
\* token has such diagnostics from its comments alone).
C21_EmbeddedNulDiagnosedAndSkipped ==
    /\ status = "hung" => diagnostics[Len(diagnostics)].code # "EmbeddedNull"
    /\ \A i \in 1..Len(tokens) :
          /\ Cardinality(EmbeddedNullErrors(tokens[i])) = Cardinality(ScannedNuls(tokens[i]))
          /\ EmbeddedNuls(tokens[i].start, tokens[i].start + 1) # {} =>
                tokens[i].kind = "Unknown" /\ tokens[i].end = tokens[i].start + 1
          /\ tokens[i].kind = "EndOfFile" =>
                \A k \in EmbeddedNullErrors(tokens[i]) :
                    tokens[i].errors[k].at < tokens[i].start

----------------------------------------------------------------------------
(* C22 *)

\* The length of the escape that begins with the backslash at offset p, by
\* the escape table: x and up to two hex digits, up to three octal digits,
\* a line continuation, or one byte; the backslash alone before the end
\* sentinel.
EscapeLength(p) ==
    IF p + 1 >= sourceEnd THEN 1
    ELSE IF ByteAt(p + 1) = Ch["x"] THEN 2 + DigitRun(source, p + 3, 2, TRUE)
    ELSE IF isOctalDigit(ByteAt(p + 1)) THEN 1 + DigitRun(source, p + 2, 3, FALSE)
    ELSE IF ByteAt(p + 1) = Ch["CR"] /\ ByteAt(p + 2) = Ch["LF"] THEN 3
    ELSE 2

\* Where and how the string literal whose body is scanned from offset p
\* ends: at the first double quote outside an escape (after it), at the
\* first newline outside an escape (before it) or at the end sentinel.
RECURSIVE StringEnd(_)
StringEnd(p) ==
    IF p >= sourceEnd THEN [end |-> sourceEnd, way |-> "end"]
    ELSE IF ByteAt(p) = Ch["dq"] THEN [end |-> p + 1, way |-> "quote"]
    ELSE IF isNewline(ByteAt(p)) THEN [end |-> p, way |-> "newline"]
    ELSE IF ByteAt(p) = Ch["bs"] THEN StringEnd(p + EscapeLength(p))
    ELSE StringEnd(p + 1)

\* The diagnostic of each way a string literal ends.
TerminationCodes == {"NewlineInStringLiteral", "UnterminatedStringLiteral"}

TerminationErrors(t) ==
    {t.errors[k].code : k \in 1..Len(t.errors)} \cap TerminationCodes

\* Token t, dispatched at a double quote, is the string literal that ends
\* as the reference r says.
EndsAs(t, r) ==
    /\ t.kind = "StringLiteral"
    /\ t.end = r.end
    /\ TerminationErrors(t) =
          (IF r.way = "quote" THEN {}
           ELSE IF r.way = "newline" THEN {"NewlineInStringLiteral"}
           ELSE {"UnterminatedStringLiteral"})

\* C22: the scanning of every string literal ends in exactly one of three
\* ways: at the first unescaped double quote, which is consumed, without a
\* termination diagnostic; at the first newline not preceded by a
\* backslash, with NewlineInStringLiteral, the newline not consumed; or at
\* the true end of the buffer, with UnterminatedStringLiteral, the sentinel
\* not consumed.  In all three cases a StringLiteral token is returned.
C22_StringLiteralTermination ==
    /\ status = "hung" => ByteAt(marker) # Ch["dq"]
    /\ \A i \in 1..Len(tokens) :
          (ByteAt(tokens[i].start) = Ch["dq"] /\ tokens[i].start < sourceEnd)
              => EndsAs(tokens[i], StringEnd(tokens[i].start + 1))

----------------------------------------------------------------------------
(* C23 *)

\* How many of the first bytes of a lexeme, from index j on, are decimal
\* digits or underscores.
RECURSIVE SizeLength(_, _)
SizeLength(raw, j) ==
    IF j <= Len(raw) /\ (isDecimalDigit(raw[j]) \/ raw[j] = Ch["_"])
    THEN 1 + SizeLength(raw, j + 1)
    ELSE 0

\* The index of the first byte after the size and the horizontal whitespace
\* that follows it.
RECURSIVE AfterWhitespace(_, _)
AfterWhitespace(raw, j) ==
    IF j <= Len(raw) /\ isHorizontalWhitespace(raw[j]) THEN AfterWhitespace(raw, j + 1)
    ELSE j

\* Token t is a sized vector literal: size digits, optional whitespace,
\* the quote.
SizedVector(t) ==
    /\ t.kind = "IntegerLiteral"
    /\ isDecimalDigit(t.data.raw[1])
    /\ At(t.data.raw, AfterWhitespace(t.data.raw, SizeLength(t.data.raw, 1) + 1)) = Ch["'"]

\* The size stored with t is size (a literal that lacks its base or its
\* digits stores no vector).
StoredSize(t, size) == t.data.type = "vector" => t.data.sized /\ t.data.size = size

\* What C23 says of a literal whose size digits have the value S.
SizeChecked(t, S) ==
    IF S = <<>>
    THEN /\ Emitted(t, "IntegerSizeZero") /\ ~Emitted(t, "IntegerSizeTooLarge")
         /\ StoredSize(t, <<>>)
    ELSE IF NumGreater(S, UINT32_MAX)
    THEN /\ Emitted(t, "IntegerSizeTooLarge") /\ ~Emitted(t, "IntegerSizeZero")
         /\ StoredSize(t, UINT32_MAX)
    ELSE /\ ~Emitted(t, "IntegerSizeZero") /\ ~Emitted(t, "IntegerSizeTooLarge")
         /\ StoredSize(t, S)

\* C23: for every sized vector literal, with S the decimal value of the
\* size digits (underscores ignored): S = 0 stores size 0 and emits
\* IntegerSizeZero; S > 2^32-1 stores 2^32-1 and emits IntegerSizeTooLarge;
\* otherwise the stored size is S and neither diagnostic is emitted.
C23_VectorSizeChecked ==
    \A i \in 1..Len(tokens) :
        (tokens[i].kind = "IntegerLiteral" /\ SizedVector(tokens[i])) =>
            SizeChecked(tokens[i],
                        DecimalValue(tokens[i].data.raw, SizeLength(tokens[i].data.raw, 1)))

----------------------------------------------------------------------------
(* C24 *)

\* The index in the lexeme of the quote of an integer literal: the first
\* byte of an unsized literal, the byte after the size and its whitespace
\* of a sized one.
QuoteIndex(raw) ==
    IF raw[1] = Ch["'"] THEN 1 ELSE AfterWhitespace(raw, SizeLength(raw, 1) + 1)

\* The index in the lexeme of the base letter: after the quote, and after
\* the s of a sized literal.
BaseIndex(raw) ==
    IF raw[1] # Ch["'"] /\ At(raw, QuoteIndex(raw) + 1) \in {Ch["s"], Ch["S"]}
    THEN QuoteIndex(raw) + 2
    ELSE QuoteIndex(raw) + 1

\* Token t is a vector literal with a base.
HasBase(t) ==
    /\ t.kind = "IntegerLiteral"
    /\ At(t.data.raw, QuoteIndex(t.data.raw)) = Ch["'"]
    /\ At(t.data.raw, BaseIndex(t.data.raw)) # -1
    /\ BaseOf(At(t.data.raw, BaseIndex(t.data.raw))) # "none"

\* The first offset from p on that holds no horizontal whitespace.
RECURSIVE SkipWhitespace(_)
SkipWhitespace(p) == IF isHorizontalWhitespace(ByteAt(p)) THEN SkipWhitespace(p + 1) ELSE p

\* Byte c can stand in the digits of a vector of the base.
VectorByte(base, c) == c = Ch["_"] \/ isLogicDigit(c) \/ IsDigitFunc(base, c)

\* The end of the maximal run of such bytes from offset p.
RECURSIVE RunEnd(_, _)
RunEnd(base, p) == IF VectorByte(base, ByteAt(p)) THEN RunEnd(base, p + 1) ELSE p

\* The digits of the bytes [p, q): underscores dropped, x and X logic x,
\* z, Z and ? logic z, the digits of the base their value.
RECURSIVE RunDigits(_, _, _)
RunDigits(base, p, q) ==
    IF p >= q THEN <<>>
    ELSE IF ByteAt(q - 1) = Ch["_"] THEN RunDigits(base, p, q - 1)
    ELSE Append(RunDigits(base, p, q - 1),
                IF ByteAt(q - 1) \in {Ch["x"], Ch["X"]} THEN LogicX
                ELSE IF ByteAt(q - 1) \in {Ch["z"], Ch["Z"], Ch["?"]} THEN LogicZ
                ELSE LogicValue(IF ByteAt(q - 1) \in 48..57 THEN ByteAt(q - 1) - 48
                                ELSE IF ByteAt(q - 1) \in 65..70 THEN ByteAt(q - 1) - 55
                                ELSE ByteAt(q - 1) - 87))

\* What C24 says of token t, whose base letter is at offset b and whose
\* first byte after the base and the whitespace is at offset p.
DigitsScanned(t, base, b, p) ==
    IF ~IsDigitFunc(base, ByteAt(p)) /\ ~isLogicDigit(ByteAt(p))
    THEN /\ Emitted(t, "MissingVectorDigits")
         /\ t.data.type # "vector"
         /\ t.end = b + 1
    ELSE /\ ~Emitted(t, "MissingVectorDigits")
         /\ t.data.type = "vector"
         /\ t.end = RunEnd(base, p)
         /\ t.data.digits = RunDigits(base, p, RunEnd(base, p))

\* C24: for every vector literal with a base, the digits handed to the
\* vector builder are, in source order, the bytes of the maximal run after
\* the base and optional horizontal whitespace that are underscores, x/X,
\* z/Z/? or digits of the base, underscores dropped, x/X as logic x, z/Z/? as
\* logic z and digits as their value; scanning stops at the first other
\* byte without consuming it.  If the first byte after the base and the
\* whitespace is neither a digit of the base nor a logic digit,
\* MissingVectorDigits is emitted, no digit is added and the cursor stays
\* right after the base letter.
C24_VectorDigits ==
    \A i \in 1..Len(tokens) :
        (tokens[i].kind = "IntegerLiteral" /\ HasBase(tokens[i])) =>
            DigitsScanned(tokens[i],
                          BaseOf(tokens[i].data.raw[BaseIndex(tokens[i].data.raw)]),
                          tokens[i].start + BaseIndex(tokens[i].data.raw) - 1,
                          SkipWhitespace(tokens[i].start + BaseIndex(tokens[i].data.raw)))

\* A sized octal literal was returned whose digits come after whitespace
\* and hold a question mark, an underscore and an octal digit.
C24_DigitsAfterWhitespace ==
    \E i \in 1..Len(tokens) :
        /\ tokens[i].kind = "IntegerLiteral" /\ HasBase(tokens[i])
        /\ tokens[i].data.type = "vector"
        /\ tokens[i].data.digits = <<LogicZ, LogicValue(7)>>
        /\ isHorizontalWhitespace(ByteAt(tokens[i].start + BaseIndex(tokens[i].data.raw)))
        /\ \E p \in tokens[i].start..(tokens[i].end - 1) : ByteAt(p) = Ch["_"]
        /\ \E p \in tokens[i].start..(tokens[i].end - 1) : ByteAt(p) = Ch[" "]

----------------------------------------------------------------------------
(* C25 *)

\* Token t is an escaped identifier.
EscapedIdentifier(t) == t.kind = "Identifier" /\ t.data.type = "Escaped"

\* C25: every Identifier token of category Escaped has a lexeme of at least
\* two bytes, a backslash followed by printable bytes that are not
\* whitespace; a backslash followed by whitespace or NUL yields Unknown
\* with EscapedWhitespace; and a backslash followed by another byte that is
\* not printable does not yield an escaped identifier made of the
\* backslash alone.
C25_EscapedIdentifierLexeme ==
    \A i \in 1..Len(tokens) :
        /\ (tokens[i].kind = "Identifier" /\ EscapedIdentifier(tokens[i])) =>
              /\ tokens[i].end - tokens[i].start >= 2
              /\ ByteAt(tokens[i].start) = Ch["bs"]
              /\ \A p \in (tokens[i].start + 1)..(tokens[i].end - 1) :
                    isPrintable(ByteAt(p)) /\ ~isWhitespace(ByteAt(p))
        /\ (/\ ByteAt(tokens[i].start) = Ch["bs"] /\ tokens[i].start < sourceEnd
            /\ (isWhitespace(ByteAt(tokens[i].start + 1)) \/ ByteAt(tokens[i].start + 1) = 0)) =>
              /\ tokens[i].kind = "Unknown"
              /\ Emitted(tokens[i], "EscapedWhitespace")
              /\ tokens[i].end = tokens[i].start + 1

----------------------------------------------------------------------------
(* C26 *)

\* The offset of the e or E of a real literal that starts at offset p, or
\* -1 when the digits, underscores and point of the mantissa are followed
\* by another byte.
RECURSIVE ExponentLetter(_)
ExponentLetter(p) ==
    IF ByteAt(p) \in {Ch["e"], Ch["E"]} THEN p
    ELSE IF isDecimalDigit(ByteAt(p)) \/ ByteAt(p) \in {Ch["_"], Ch["."]}
         THEN ExponentLetter(p + 1)
    ELSE -1

\* The offset of the first byte after the letter at offset e and the
\* optional sign.
ExponentDigits(e) == IF ByteAt(e + 1) \in {Ch["+"], Ch["-"]} THEN e + 2 ELSE e + 1

\* The end of the run of decimal digits and underscores from offset p.
RECURSIVE DecimalRunEnd(_)
DecimalRunEnd(p) ==
    IF isDecimalDigit(ByteAt(p)) \/ ByteAt(p) = Ch["_"] THEN DecimalRunEnd(p + 1) ELSE p

\* What C26 says of the real literal t whose exponent digits would begin
\* at offset d.
ExponentScanned(t, d) ==
    IF isDecimalDigit(ByteAt(d))
    THEN /\ ~Emitted(t, "MissingExponentDigits")
         /\ t.end = DecimalRunEnd(d)
         /\ t.data.expVal = DecimalValue(Slice(d, DecimalRunEnd(d)), DecimalRunEnd(d) - d)
    ELSE Emitted(t, "MissingExponentDigits")

\* C26: for a real literal with an exponent part, MissingExponentDigits is
\* emitted if and only if no decimal digit follows the e or E and the
\* optional sign; an exponent written with at least one digit, zeros alone
\* included (e0, e00), has no MissingExponentDigits and its value is the
\* decimal value of those digits.
C26_MissingExponentDigits ==
    \A i \in 1..Len(tokens) :
        (tokens[i].kind = "RealLiteral" /\ ExponentLetter(tokens[i].start) # -1) =>
            ExponentScanned(tokens[i], ExponentDigits(ExponentLetter(tokens[i].start)))

----------------------------------------------------------------------------
(* C27 *)

\* The end of the maximal run of horizontal whitespace from offset p.
RECURSIVE WhitespaceEnd(_)
WhitespaceEnd(p) == IF isHorizontalWhitespace(ByteAt(p)) THEN WhitespaceEnd(p + 1) ELSE p

\* The end of the line comment whose body is scanned from offset p: the
\* next newline or the end sentinel.
RECURSIVE LineCommentEnd(_)
LineCommentEnd(p) ==
    IF isNewline(ByteAt(p)) \/ p >= sourceEnd THEN p ELSE LineCommentEnd(p + 1)

\* The j-th trivium of t is of the kind and covers [from, to).
TriviumIs(t, j, kind, from, to) ==
    /\ j <= Len(t.trivia)
    /\ t.trivia[j] = [kind |-> kind, from |-> from, to |-> to]

\* The trivia of t from the j-th on are the reference segmentation of the
\* bytes from offset p, and the token begins where it ends.  A block comment
\* is taken as scanned.
RECURSIVE SegmentedFrom(_, _, _)
SegmentedFrom(t, j, p) ==
    IF isHorizontalWhitespace(ByteAt(p))
    THEN /\ TriviumIs(t, j, "Whitespace", p, WhitespaceEnd(p))
         /\ SegmentedFrom(t, j + 1, WhitespaceEnd(p))
    ELSE IF ByteAt(p) = Ch["CR"] /\ ByteAt(p + 1) = Ch["LF"]
    THEN TriviumIs(t, j, "EndOfLine", p, p + 2) /\ SegmentedFrom(t, j + 1, p + 2)
    ELSE IF isNewline(ByteAt(p))
    THEN TriviumIs(t, j, "EndOfLine", p, p + 1) /\ SegmentedFrom(t, j + 1, p + 1)
    ELSE IF ByteAt(p) = Ch["/"] /\ ByteAt(p + 1) = Ch["/"]
    THEN /\ TriviumIs(t, j, "LineComment", p, LineCommentEnd(p + 2))
         /\ SegmentedFrom(t, j + 1, LineCommentEnd(p + 2))
    ELSE IF ByteAt(p) = Ch["/"] /\ ByteAt(p + 1) = Ch["*"]
    THEN /\ j <= Len(t.trivia)
         /\ t.trivia[j].kind = "BlockComment" /\ t.trivia[j].from = p
         /\ t.trivia[j].to > p
         /\ SegmentedFrom(t, j + 1, t.trivia[j].to)
    ELSE j = Len(t.trivia) + 1 /\ t.start = p

\* C27: in Normal mode the trivia of a call are the reference
\* segmentation of the bytes before the token: every maximal run of
\* horizontal whitespace is one Whitespace trivium, so that no two
\* Whitespace trivia are adjacent; each CR LF pair, lone CR and lone LF is
\* one EndOfLine trivium; a line comment runs up to, and not including, the
\* next newline or the true end of the buffer.
C27_TriviaSegmentation ==
    \A i \in 1..Len(tokens) :
        EntryMode(i) = "Normal" =>
            /\ SegmentedFrom(tokens[i], 1, tokens[i].before)
            /\ \A j \in 1..(Len(tokens[i].trivia) - 1) :
                  ~(tokens[i].trivia[j].kind = "Whitespace"
                      /\ tokens[i].trivia[j + 1].kind = "Whitespace")

\* A token was returned in Normal mode after a whitespace run of two
\* bytes, a CR LF pair and a line comment.
C27_RunPairAndComment ==
    \E i \in 1..Len(tokens) :
        /\ EntryMode(i) = "Normal"
        /\ \E j \in 1..Len(tokens[i].trivia) :
              /\ tokens[i].trivia[j].kind = "Whitespace"
              /\ tokens[i].trivia[j].to - tokens[i].trivia[j].from = 2
        /\ \E j \in 1..Len(tokens[i].trivia) :
              /\ tokens[i].trivia[j].kind = "EndOfLine"
              /\ tokens[i].trivia[j].to - tokens[i].trivia[j].from = 2
        /\ \E j \in 1..Len(tokens[i].trivia) : tokens[i].trivia[j].kind = "LineComment"

----------------------------------------------------------------------------
(* C28 *)

\* The end of the block comment whose body is scanned from offset q: after
\* the first star and slash, or the end sentinel.
RECURSIVE BlockCommentEnd(_)
BlockCommentEnd(q) ==
    IF q >= sourceEnd THEN sourceEnd
    ELSE IF ByteAt(q) = Ch["*"] /\ ByteAt(q + 1) = Ch["/"] THEN q + 2
    ELSE BlockCommentEnd(q + 1)

\* The block comment that opens at offset p is closed.
Closed(p) ==
    /\ BlockCommentEnd(p + 2) >= p + 4
    /\ ByteAt(BlockCommentEnd(p + 2) - 2) = Ch["*"]
    /\ ByteAt(BlockCommentEnd(p + 2) - 1) = Ch["/"]

\* The offsets of the openings inside the comment [p, to).
Openings(p, to) ==
    {q \in (p + 2)..(to - 2) : ByteAt(q) = Ch["/"] /\ ByteAt(q + 1) = Ch["*"]}

\* The diagnostics of a code that the call of t emitted within the trivium v.
ErrorsIn(t, v, code) ==
    {k \in 1..Len(t.errors) :
        /\ t.errors[k].code = code
        /\ v.from + 2 <= t.errors[k].at /\ t.errors[k].at <= v.to}

\* What C28 says of the block comment v among the trivia of t.
BlockCommentScanned(t, v) ==
    /\ v.to = BlockCommentEnd(v.from + 2)
    /\ Cardinality(ErrorsIn(t, v, "NestedBlockComment"))
          = Cardinality(Openings(v.from, v.to))
    /\ Cardinality(ErrorsIn(t, v, "UnterminatedBlockComment"))
          = (IF Closed(v.from) THEN 0 ELSE 1)

\* C28: a block comment always yields exactly one BlockComment trivium.
\* It ends at the first star and slash after the opening; each opening
\* inside it emits one NestedBlockComment and is consumed without a new
\* level of nesting; if the true end of the buffer comes first, exactly one
\* UnterminatedBlockComment is emitted, the sentinel is not consumed and the
\* trivium is still recorded.
C28_BlockCommentTrivium ==
    /\ status = "hung" => ~(ByteAt(marker) = Ch["/"] /\ ByteAt(marker + 1) = Ch["*"])
    /\ \A i \in 1..Len(tokens) :
          \A j \in 1..Len(tokens[i].trivia) :
              tokens[i].trivia[j].kind = "BlockComment" =>
                  BlockCommentScanned(tokens[i], tokens[i].trivia[j])

----------------------------------------------------------------------------
(* C29 *)

\* The first offset from p on that holds no zero.
RECURSIVE ZerosEnd(_)
ZerosEnd(p) == IF ByteAt(p) = Ch["0"] THEN ZerosEnd(p + 1) ELSE p

\* How many decimal digits the bytes [p, q) hold.
DigitCount(p, q) == Cardinality({o \in p..(q - 1) : isDecimalDigit(ByteAt(o))})

\* decPoint and digits of the real literal that starts at offset p: the
\* digits scanned after the leading zeros, before the point and in all.
DecPoint(p) == DigitCount(ZerosEnd(p), DecimalRunEnd(ZerosEnd(p)))

Digits(p) ==
    IF ByteAt(DecimalRunEnd(ZerosEnd(p))) = Ch["."]
    THEN DecPoint(p) + DigitCount(DecimalRunEnd(ZerosEnd(p)) + 1,
                                  DecimalRunEnd(DecimalRunEnd(ZerosEnd(p)) + 1))
    ELSE DecPoint(p)

\* The written exponent value of the literal whose exponent letter is at
\* offset e (-1 without one), as decimal digits.
WrittenValue(e) ==
    IF e = -1 \/ ~isDecimalDigit(ByteAt(ExponentDigits(e))) THEN <<>>
    ELSE DecimalValue(Slice(ExponentDigits(e), DecimalRunEnd(ExponentDigits(e))),
                      DecimalRunEnd(ExponentDigits(e)) - ExponentDigits(e))

\* The number a sequence of decimal digits writes, for one that is an int.
RECURSIVE NumberOf(_, _)
NumberOf(v, n) == IF n = 0 THEN 0 ELSE (NumberOf(v, n - 1) * 10) + v[n]

\* What C29 says of the real literal t with fracExp, the written exponent
\* value V and its sign.
ExponentPassed(t, fracExp, V, neg) ==
    /\ ~NumGreater(V, INT32_MAX)
    /\ t.data.exp = (IF neg THEN fracExp - NumberOf(V, Len(V))
                     ELSE fracExp + NumberOf(V, Len(V)))
    /\ t.data.iterations <= 9

\* C29: for every real literal the decimal exponent passed to
\* composeDouble is decPoint - min(digits, 18) plus or minus the written
\* exponent value, and composeDouble clamps its magnitude to 0..511 before
\* the loop, which therefore runs at most 9 times within the table of
\* powers of ten; no literal, whatever its written exponent, takes the
\* computation outside defined behaviour.
C29_ExponentPassedAndClamped ==
    /\ status # "undefined"
    /\ \A i \in 1..Len(tokens) :
          tokens[i].kind = "RealLiteral" =>
              ExponentPassed(tokens[i],
                  DecPoint(tokens[i].start) - Min(Digits(tokens[i].start), MaxMantissaDigits),
                  WrittenValue(ExponentLetter(tokens[i].start)),
                  ExponentLetter(tokens[i].start) # -1
                      /\ ByteAt(ExponentLetter(tokens[i].start) + 1) = Ch["-"])

====
